---------------------------- MODULE Spec2Model ----------------------------
(***************************************************************************)
(* k8s-duplicator: the SecretReconciler of internal/controller/            *)
(* secret_controller.go, run against an object store holding namespaces    *)
(* and secrets.                                                            *)
(*                                                                         *)
(* Strings whose characters the code inspects (names, annotation values)   *)
(* are sequences of one-character strings, so that strings.Split and the   *)
(* "<namespace>/<name>" key are computed, not assumed.  A Go map that is   *)
(* nil and one that is empty are the same value here (the empty function): *)
(* a lookup misses on both.                                                *)
(***************************************************************************)
EXTENDS Integers, Sequences, FiniteSets, TLC

(***************************************************************************)
(* Bounds of the model.                                                    *)
(***************************************************************************)
\* secrets present in an initial cluster
MaxSecrets == 3
\* mutations by external actors in one behaviour
MaxExternal == 1
\* store calls that fail for a reason of the store's own in one behaviour
MaxFaults == 1
\* secrets present in an initial cluster of SpecRace
MaxRaceSecrets == 2

(***************************************************************************)
(* Strings.                                                                *)
(***************************************************************************)
Str_a == <<"a">>
Str_b == <<"b">>
Str_c == <<"c">>
Str_s == <<"s">>
Str_t == <<"t">>
Str_true == <<"t", "r", "u", "e">>

\* strings.Split(s, sep) for a one-character separator: the segments of s
\* between the separators, empty segments included; no separator gives <<s>>.
RECURSIVE strings_Split(_, _)
strings_Split(s, sep) ==
    IF \A i \in 1..Len(s) : s[i] # sep
    THEN <<s>>
    ELSE LET i == CHOOSE n \in 1..Len(s) :
                      s[n] = sep /\ \A j \in 1..(n - 1) : s[j] # sep
         IN  <<SubSeq(s, 1, i - 1)>> \o strings_Split(SubSeq(s, i + 1, Len(s)), sep)

\* types.NamespacedName.String(): Namespace + "/" + Name
ObjectKeyString(namespace, name) == namespace \o <<"/">> \o name

\* client.ObjectKeyFromObject(obj).String()
ObjectKeyFromObject(obj) == ObjectKeyString(obj.Namespace, obj.Name)

(***************************************************************************)
(* The annotation contract.                                                *)
(***************************************************************************)
duplicatorDuplicateAnnotationKey == "duplicator.k8s.nicktriller.com/duplicate"
duplicatorFromAnnotationKey == "duplicator.k8s.nicktriller.com/source"

NamespaceActive == "Active"
NamespaceTerminating == "Terminating"

(***************************************************************************)
(* Classifier.                                                             *)
(***************************************************************************)
\* mutant: the value is compared without regard to case
isSecretDuplicatorSource_anyCase(secret) ==
    IF DOMAIN secret.Annotations = {} THEN FALSE
    ELSE /\ duplicatorDuplicateAnnotationKey \in DOMAIN secret.Annotations
         /\ secret.Annotations[duplicatorDuplicateAnnotationKey] \in
                {Str_true, <<"T", "r", "u", "e">>}

isSecretDuplicatorSource(secret) ==
    IF DOMAIN secret.Annotations = {}
    THEN FALSE
    ELSE /\ duplicatorDuplicateAnnotationKey \in DOMAIN secret.Annotations
         /\ secret.Annotations[duplicatorDuplicateAnnotationKey] = Str_true

\* mutant: the value only has to contain a separator
isSecretDuplicated_contains(secret) ==
    IF DOMAIN secret.Annotations = {} THEN FALSE
    ELSE /\ duplicatorFromAnnotationKey \in DOMAIN secret.Annotations
         /\ Len(strings_Split(secret.Annotations[duplicatorFromAnnotationKey], "/")) >= 2

isSecretDuplicated(secret) ==
    IF DOMAIN secret.Annotations = {}
    THEN FALSE
    ELSE /\ duplicatorFromAnnotationKey \in DOMAIN secret.Annotations
         /\ Len(strings_Split(secret.Annotations[duplicatorFromAnnotationKey], "/")) = 2

\* mutant: the phase test is left out
findNonTerminatingNamespaces_all(allNamespaces) == allNamespaces

findNonTerminatingNamespaces(allNamespaces) ==
    SelectSeq(allNamespaces, LAMBDA namespace : namespace.Phase # NamespaceTerminating)

findAllSourceSecrets(allSecrets) ==
    SelectSeq(allSecrets, isSecretDuplicatorSource)

findAllDuplicateSecrets(allSecrets) ==
    SelectSeq(allSecrets, isSecretDuplicated)

(***************************************************************************)
(* Mirror Builder.                                                         *)
(***************************************************************************)
NoLabels == [l \in {} |-> <<>>]

\* mutant: the annotations of the source are copied along
newDuplicateSecret_annotations(source, namespace) ==
    [Name        |-> source.Name,
     Namespace   |-> namespace,
     Annotations |-> [k \in DOMAIN source.Annotations \cup {duplicatorFromAnnotationKey} |->
                          IF k = duplicatorFromAnnotationKey
                          THEN ObjectKeyFromObject(source)
                          ELSE source.Annotations[k]],
     Labels      |-> NoLabels,
     Data        |-> source.Data,
     Type        |-> source.Type]

\* mutant: the labels of the source are copied
newDuplicateSecret_labels(source, namespace) ==
    [Name        |-> source.Name,
     Namespace   |-> namespace,
     Annotations |-> [k \in {duplicatorFromAnnotationKey} |-> ObjectKeyFromObject(source)],
     Labels      |-> source.Labels,
     Data        |-> source.Data,
     Type        |-> source.Type]

\* mutant: the type of the source is not copied
newDuplicateSecret_opaque(source, namespace) ==
    [Name        |-> source.Name,
     Namespace   |-> namespace,
     Annotations |-> [k \in {duplicatorFromAnnotationKey} |-> ObjectKeyFromObject(source)],
     Labels      |-> NoLabels,
     Data        |-> source.Data,
     Type        |-> "Opaque"]

\* mutant: the annotation records the duplicate's namespace, not the source's
newDuplicateSecret_ownKey(source, namespace) ==
    [Name        |-> source.Name,
     Namespace   |-> namespace,
     Annotations |-> [k \in {duplicatorFromAnnotationKey} |->
                          ObjectKeyString(namespace, source.Name)],
     Labels      |-> NoLabels,
     Data        |-> source.Data,
     Type        |-> source.Type]

newDuplicateSecret(source, namespace) ==
    [ Name        |-> source.Name,
      Namespace   |-> namespace,
      Annotations |-> [k \in {duplicatorFromAnnotationKey} |-> ObjectKeyFromObject(source)],
      Labels      |-> NoLabels,
      Data        |-> source.Data,
      Type        |-> source.Type ]


(***************************************************************************)
(* The cluster the model explores.                                         *)
(***************************************************************************)
\* the order the store lists objects in (by namespace, then by name)
NamespaceOrder == <<Str_a, Str_b, Str_c>>
KeyOrder == << <<Str_a, Str_s>>, <<Str_a, Str_t>>, <<Str_b, Str_s>>, <<Str_b, Str_t>>,
               <<Str_c, Str_s>>, <<Str_c, Str_t>> >>

\* keys at which external actors place secrets
ExtKeys == { <<Str_a, Str_s>>, <<Str_b, Str_s>>, <<Str_b, Str_t>> }

Data == {1, 2}
Types == {"Opaque", "kubernetes.io/tls"}
ExtLabels == [l \in {"app"} |-> "x"]

Ann(keys, dup, from) ==
    [k \in keys |-> IF k = duplicatorDuplicateAnnotationKey THEN dup ELSE from]

\* annotation maps external actors give their secrets
AnnSets ==
    { Ann({}, <<>>, <<>>),
      Ann({duplicatorDuplicateAnnotationKey}, Str_true, <<>>),
      Ann({duplicatorFromAnnotationKey}, <<>>, ObjectKeyString(Str_a, Str_s)),
      Ann({duplicatorFromAnnotationKey}, <<>>, Str_a \o Str_s) }

\* payloads external actors store: every relation between two payloads (data
\* equal or not, type equal or not) occurs among them
Payloads == {p \in [Data : Data, Type : Types] : p.Type = "Opaque" \/ p.Data = 1}

Contents ==
    {[Data |-> p.Data, Type |-> p.Type, Annotations |-> a] : p \in Payloads, a \in AnnSets}

\* the secrets the store starts with: the payload of a secret that is neither a
\* source nor a duplicate is compared with nothing, and is the first one
InitContents ==
    {c \in Contents : \/ isSecretDuplicatorSource(c)
                      \/ isSecretDuplicated(c)
                      \/ (c.Data = 1 /\ c.Type = "Opaque")}

MkSecret(key, c) ==
    [ Name        |-> key[2],
      Namespace   |-> key[1],
      Annotations |-> c.Annotations,
      Labels      |-> ExtLabels,
      Data        |-> c.Data,
      Type        |-> c.Type ]

KeyOf(obj) == <<obj.Namespace, obj.Name>>

(***************************************************************************)
(* Object store: namespaces with a phase, secrets by (namespace, name).    *)
(* A write names its object by key alone and carries no version of it, as  *)
(* the objects the reconciler sends carry none.                            *)
(***************************************************************************)
Put(store, obj) ==
    [k \in DOMAIN store \cup {KeyOf(obj)} |-> IF k = KeyOf(obj) THEN obj ELSE store[k]]

Remove(store, key) == [k \in DOMAIN store \ {key} |-> store[k]]

StoreGet(store, key) == IF key \in DOMAIN store THEN "ok" ELSE "NotFound"

\* creation is refused in a namespace that is missing or terminating
StoreCreate(nss, store, obj) ==
    IF obj.Namespace \notin DOMAIN nss THEN "NamespaceNotFound"
    ELSE IF nss[obj.Namespace] = NamespaceTerminating THEN "Forbidden"
    ELSE IF KeyOf(obj) \in DOMAIN store THEN "AlreadyExists"
    ELSE "ok"

StoreUpdate(store, obj) == IF KeyOf(obj) \in DOMAIN store THEN "ok" ELSE "NotFound"

StoreDelete(store, key) == IF key \in DOMAIN store THEN "ok" ELSE "NotFound"

Reverse(seq) == [i \in 1..Len(seq) |-> seq[Len(seq) + 1 - i]]

\* a List returns the objects in an order the caller does not control
ListOrders(seq) == {seq, Reverse(seq)}

ListSecretItems(store) ==
    LET keys == SelectSeq(KeyOrder, LAMBDA k : k \in DOMAIN store)
    IN  [i \in 1..Len(keys) |-> store[keys[i]]]

ListNamespaceItems(nss) ==
    LET names == SelectSeq(NamespaceOrder, LAMBDA n : n \in DOMAIN nss)
    IN  [i \in 1..Len(names) |-> [Name |-> names[i], Phase |-> nss[names[i]]]]

(***************************************************************************)
(* Trigger Router, lines 160-183: what a change notification enqueues.     *)
(***************************************************************************)
Request(ns, name) == [Namespace |-> ns, Name |-> name]

\* mutant: a namespace event yields no request
triggerFullReconcile_none(obj) == << >>

\* mutant: the request names the namespace that changed
triggerFullReconcile_own(obj) == << Request(<<>>, obj.Name) >>

\* lines 160-170: one request, the sentinel, whatever the object
triggerFullReconcile(obj) == << Request(<<>>, <<>>) >>

\* line 181, For(&corev1.Secret{}): the request of a secret event names the secret
EnqueueRequestForObject(obj) == << Request(obj.Namespace, obj.Name) >>

(***************************************************************************)
(* State.                                                                  *)
(***************************************************************************)
\* SetupWithManager sets no MaxConcurrentReconciles: the controller has one worker
Workers == {1}

\* The Reconcile calls that can be in progress at once.  The manager that owns
\* the worker pool is set up outside this package; its pool is bounded and
\* delivers requests with different keys possibly at the same time.  The
\* second call is taken in SpecTwo only: everywhere else one call runs.
PoolWorkers == Workers \cup {2}

VARIABLES
    namespaces,      \* the store: namespace name -> phase
    secrets,         \* the store: <<namespace, name>> -> secret
    pc,              \* per worker: where its Reconcile call stands
    allSecrets,      \* Reconcile's allSecrets.Items
    allNamespaces,   \* Reconcile's allNamespaces.Items
    si,              \* reconcileSources: index of sourceSecret in allSources
    ni,              \* reconcileSources: index of namespace in allNamespaces
    di,              \* reconcileDuplicates: index of duplicate in allDuplicates
    retryableError,  \* an error was recorded in this cycle
    result,          \* what the last Reconcile call returned
    ops,             \* history: the store calls of the worker's current or last cycle
    prior,           \* history: the cycle that ended just before this one started
    undisturbed,     \* history: a cycle has ended and nothing external happened since
    lost,            \* history: keys of sources an external actor deleted or unmarked
    extCount,        \* external mutations so far
    faults,          \* injected store failures so far
    call,            \* a function of the package applied on its own: name, arguments, result
    req,             \* per worker: the request its Reconcile call was given
    queue,           \* the controller's work queue: the requests waiting for a worker
    seen,            \* the informers' cache: the store as the last delivered events left it
    replay           \* history: a first cycle, and the store it started from

storeVars == <<namespaces, secrets>>
loopVars == <<si, ni, di>>
workerVars == <<pc, allSecrets, allNamespaces, si, ni, di, retryableError, result, ops, prior>>
envVars == <<undisturbed, lost, extCount, faults>>
queueVars == <<req, queue, seen, replay>>
auxVars == <<call, req, queue, seen, replay>>
vars == <<namespaces, secrets, pc, allSecrets, allNamespaces, si, ni, di,
          retryableError, result, ops, prior, undisturbed, lost, extCount, faults,
          call, req, queue, seen, replay>>

allSources(w) == findAllSourceSecrets(allSecrets[w])
allDuplicates(w) == findAllDuplicateSecrets(allSecrets[w])
nonTerminatingNamespaces(w) == findNonTerminatingNamespaces(allNamespaces[w])

(***************************************************************************)
(* Initial states: a cluster as the controller may find it when it starts. *)
(***************************************************************************)
InitNamespaces ==
    { [n \in {Str_a} |-> NamespaceActive] } \cup
    { [n \in {Str_a, Str_b} |-> IF n = Str_a THEN NamespaceActive ELSE p] :
        p \in {NamespaceActive, NamespaceTerminating, ""} }

InitSecrets(nss, max) ==
    UNION { { [k \in K |-> MkSecret(k, f[k])] : f \in [K -> InitContents] } :
            K \in { X \in SUBSET {k \in ExtKeys : k[1] \in DOMAIN nss} :
                      Cardinality(X) <= max } }

NoCall == [fn |-> "none"]

\* the work queue; while it is off, cycles start on their own, as a caller of
\* Reconcile may start them, and all with the same request
QueueOff == [on |-> FALSE, reqs |-> {}]
NoStore == [namespaces |-> [n \in {} |-> ""], secrets |-> [k \in {} |-> <<>>]]
NoReplay == [taken |-> FALSE]

InitAux ==
    /\ call = NoCall
    /\ req = [w \in PoolWorkers |-> Request(<<>>, <<>>)]
    /\ queue = QueueOff
    /\ seen = NoStore
    /\ replay = NoReplay

NoPrior == [follows |-> FALSE, ok |-> FALSE, writes |-> {}, failed |-> {}, first |-> FALSE]

InitWorkers ==
    /\ pc = [w \in PoolWorkers |-> "idle"]
    /\ allSecrets = [w \in PoolWorkers |-> <<>>]
    /\ allNamespaces = [w \in PoolWorkers |-> <<>>]
    /\ si = [w \in PoolWorkers |-> 1]
    /\ ni = [w \in PoolWorkers |-> 1]
    /\ di = [w \in PoolWorkers |-> 1]
    /\ retryableError = [w \in PoolWorkers |-> FALSE]
    /\ result = [w \in PoolWorkers |-> "none"]
    /\ ops = [w \in PoolWorkers |-> <<>>]
    /\ prior = [w \in PoolWorkers |-> NoPrior]
    /\ undisturbed = FALSE
    /\ lost = {}
    /\ extCount = 0
    /\ faults = 0

Init ==
    /\ namespaces \in InitNamespaces
    /\ secrets \in InitSecrets(namespaces, MaxSecrets)
    /\ InitWorkers
    /\ InitAux

(***************************************************************************)
(* Reconcile, one store call per step.  F tells whether the store may fail *)
(* the call for a reason of its own (a timeout, a refused request).        *)
(***************************************************************************)
Fault(F) == IF F /\ faults < MaxFaults THEN {"Error"} ELSE {}

Count(res) == IF res = "Error" THEN faults + 1 ELSE faults

Op(kind, key, obj, res) == [op |-> kind, key |-> key, obj |-> obj, res |-> res]

\* a List names no object
NoKey == <<<<>>, <<>>>>

WriteKinds == {"Create", "Update", "Delete"}

Writes(log) == {log[i].op : i \in {j \in 1..Len(log) : log[j].op \in WriteKinds}}

\* the kinds of writes of a cycle that failed with an error the cycle records
Failures(log) ==
    {log[i].op : i \in {j \in 1..Len(log) :
        /\ log[j].op \in WriteKinds
        /\ log[j].res # "ok"
        /\ ~(log[j].op = "Create" /\ log[j].res = "AlreadyExists")
        /\ ~(log[j].op = "Delete" /\ log[j].res = "NotFound")}}

\* where Reconcile goes once reconcileSources has returned
PcAfterSources(items) ==
    IF Len(findAllDuplicateSecrets(items)) > 0 THEN "duplicates" ELSE "return"

\* a variant that gives up the cycle when a listed secret has a source
\* annotation that does not split into two parts
PcAfterList_rejects(items, nsItems) ==
    IF \E i \in 1..Len(items) :
          /\ duplicatorFromAnnotationKey \in DOMAIN items[i].Annotations
          /\ Len(strings_Split(items[i].Annotations[duplicatorFromAnnotationKey], "/")) # 2
    THEN "return"
    ELSE IF /\ Len(findAllSourceSecrets(items)) > 0
            /\ Len(findNonTerminatingNamespaces(nsItems)) > 0
    THEN "sources"
    ELSE PcAfterSources(items)

\* where Reconcile goes once both listings are in
PcAfterList(items, nsItems) ==
    IF /\ Len(findAllSourceSecrets(items)) > 0
       /\ Len(findNonTerminatingNamespaces(nsItems)) > 0
    THEN "sources"
    ELSE PcAfterSources(items)

\* the requests a worker may be given: those that wait in the queue
Pending(w) == IF queue.on THEN queue.reqs ELSE {req[w]}

\* the queue without a request, and with more requests
Take(q, r) == IF q.on THEN [q EXCEPT !.reqs = @ \ {r}] ELSE q
Enqueue(q, rs) == IF q.on THEN [q EXCEPT !.reqs = @ \cup rs] ELSE q

\* Reconcile, lines 50-58: the call receives its request, which leaves the
\* queue unless the call fails (a failed request is queued again), then
\* r.List(ctx, allSecrets)
ListSecrets(w, F) ==
    /\ pc[w] = "idle"
    /\ \E r \in Pending(w), res \in {"ok"} \cup Fault(F) :
         /\ req' = [req EXCEPT ![w] = r]
         /\ queue' = IF res = "ok" THEN Take(queue, r) ELSE queue
         /\ faults' = Count(res)
         /\ ops' = [ops EXCEPT ![w] = <<Op("ListSecrets", NoKey, NoKey, res)>>]
         /\ IF res = "ok"
            THEN /\ \E items \in ListOrders(ListSecretItems(secrets)) :
                        allSecrets' = [allSecrets EXCEPT ![w] = items]
                 /\ pc' = [pc EXCEPT ![w] = "listNamespaces"]
                 /\ result' = [result EXCEPT ![w] = "none"]
            ELSE /\ allSecrets' = [allSecrets EXCEPT ![w] = <<>>]
                 /\ pc' = pc
                 /\ result' = [result EXCEPT ![w] = "error"]
    /\ allNamespaces' = [allNamespaces EXCEPT ![w] = <<>>]
    /\ si' = [si EXCEPT ![w] = 1]
    /\ ni' = [ni EXCEPT ![w] = 1]
    /\ di' = [di EXCEPT ![w] = 1]
    /\ retryableError' = [retryableError EXCEPT ![w] = FALSE]
    /\ prior' = [prior EXCEPT ![w] = [follows |-> undisturbed,
                                      ok      |-> undisturbed /\ result[w] = "ok",
                                      writes  |-> IF undisturbed THEN Writes(ops[w]) ELSE {},
                                      failed  |-> IF undisturbed THEN Failures(ops[w]) ELSE {},
                                      first   |-> undisturbed /\ replay.taken /\ ~prior[w].follows]]
    /\ UNCHANGED <<storeVars, undisturbed, lost, extCount, call, seen, replay>>

\* a variant that logs a failed namespace listing and carries on with an
\* empty list of namespaces
ListNamespaces_continue(w, F) ==
    /\ pc[w] = "listNamespaces"
    /\ \E res \in {"ok"} \cup Fault(F) :
         /\ faults' = Count(res)
         /\ ops' = [ops EXCEPT ![w] = Append(@, Op("ListNamespaces", NoKey, NoKey, res))]
         /\ \E items \in IF res = "ok" THEN ListOrders(ListNamespaceItems(namespaces))
                                        ELSE {<<>>} :
                /\ allNamespaces' = [allNamespaces EXCEPT ![w] = items]
                /\ pc' = [pc EXCEPT ![w] = PcAfterList(allSecrets[w], items)]
         /\ result' = result
    /\ UNCHANGED <<storeVars, allSecrets, loopVars, retryableError, prior,
                   undisturbed, lost, extCount, auxVars>>

\* Reconcile, lines 59-74: r.List(ctx, allNamespaces), then the three filters
ListNamespaces(w, F) ==
    /\ pc[w] = "listNamespaces"
    /\ \E res \in {"ok"} \cup Fault(F) :
         /\ faults' = Count(res)
         /\ ops' = [ops EXCEPT ![w] = Append(@, Op("ListNamespaces", NoKey, NoKey, res))]
         /\ IF res = "ok"
            THEN /\ \E items \in ListOrders(ListNamespaceItems(namespaces)) :
                        /\ allNamespaces' = [allNamespaces EXCEPT ![w] = items]
                        /\ pc' = [pc EXCEPT ![w] = PcAfterList(allSecrets[w], items)]
                 /\ result' = result
            ELSE /\ allNamespaces' = allNamespaces
                 /\ pc' = [pc EXCEPT ![w] = "idle"]
                 /\ result' = [result EXCEPT ![w] = "error"]
         /\ queue' = IF res = "ok" THEN queue ELSE Enqueue(queue, {req[w]})
    /\ UNCHANGED <<storeVars, allSecrets, loopVars, retryableError, prior,
                   undisturbed, lost, extCount, call, req, seen, replay>>

\* a variant that leaves both passes at the first pair reached with an error
\* on record
NextPair_abort(w) ==
    IF retryableError[w]
    THEN [pc |-> "return", si |-> si[w], ni |-> ni[w]]
    ELSE IF ni[w] < Len(nonTerminatingNamespaces(w))
    THEN [pc |-> "sources", si |-> si[w], ni |-> ni[w] + 1]
    ELSE IF si[w] < Len(allSources(w))
    THEN [pc |-> "sources", si |-> si[w] + 1, ni |-> 1]
    ELSE [pc |-> PcAfterSources(allSecrets[w]), si |-> si[w], ni |-> ni[w]]

\* the loop variables of reconcileSources after the current (source, namespace) pair
NextPair(w) ==
    IF ni[w] < Len(nonTerminatingNamespaces(w))
    THEN [pc |-> "sources", si |-> si[w], ni |-> ni[w] + 1]
    ELSE IF si[w] < Len(allSources(w))
    THEN [pc |-> "sources", si |-> si[w] + 1, ni |-> 1]
    ELSE [pc |-> PcAfterSources(allSecrets[w]), si |-> si[w], ni |-> ni[w]]

sourceSecret(w) == allSources(w)[si[w]]
namespace(w) == nonTerminatingNamespaces(w)[ni[w]]
\* a variant that looks up the name of the request when the request has one
duplicateObjectKey_ofKey(w) ==
    <<namespace(w).Name, IF req[w].Name = <<>> THEN sourceSecret(w).Name ELSE req[w].Name>>
duplicateObjectKey(w) == <<namespace(w).Name, sourceSecret(w).Name>>

\* a variant that goes on to Create after any error of Get
reconcileSourcesGet_anyError(w, F) ==
    /\ pc[w] = "sources"
    /\ \E res \in {StoreGet(secrets, duplicateObjectKey(w))} \cup Fault(F) :
         /\ faults' = Count(res)
         /\ ops' = [ops EXCEPT ![w] =
                      Append(@, Op("Get", duplicateObjectKey(w), KeyOf(sourceSecret(w)), res))]
         /\ IF res # "ok"
            THEN /\ pc' = [pc EXCEPT ![w] = "create"]
                 /\ UNCHANGED <<si, ni, retryableError>>
            ELSE /\ pc' = [pc EXCEPT ![w] = NextPair(w).pc]
                 /\ si' = [si EXCEPT ![w] = NextPair(w).si]
                 /\ ni' = [ni EXCEPT ![w] = NextPair(w).ni]
                 /\ retryableError' =
                        [retryableError EXCEPT ![w] = IF res = "ok" THEN @ ELSE TRUE]
    /\ UNCHANGED <<storeVars, allSecrets, allNamespaces, di, result, prior,
                   undisturbed, lost, extCount, auxVars>>

\* a variant that records an error when the lookup finds a secret that is not
\* a duplicate of the source at hand
reconcileSourcesGet_conflict(w, F) ==
    /\ pc[w] = "sources"
    /\ \E res \in {StoreGet(secrets, duplicateObjectKey(w))} \cup Fault(F) :
         /\ faults' = Count(res)
         /\ ops' = [ops EXCEPT ![w] =
                      Append(@, Op("Get", duplicateObjectKey(w), KeyOf(sourceSecret(w)), res))]
         /\ IF res = "NotFound"
            THEN /\ pc' = [pc EXCEPT ![w] = "create"]
                 /\ UNCHANGED <<si, ni, retryableError>>
            ELSE /\ pc' = [pc EXCEPT ![w] = NextPair(w).pc]
                 /\ si' = [si EXCEPT ![w] = NextPair(w).si]
                 /\ ni' = [ni EXCEPT ![w] = NextPair(w).ni]
                 /\ retryableError' =
                        [retryableError EXCEPT ![w] =
                           IF /\ res = "ok"
                              /\ \/ secrets[duplicateObjectKey(w)] = sourceSecret(w)
                                 \/ /\ isSecretDuplicated(secrets[duplicateObjectKey(w)])
                                    /\ secrets[duplicateObjectKey(w)].Annotations
                                           [duplicatorFromAnnotationKey]
                                         = ObjectKeyFromObject(sourceSecret(w))
                           THEN @ ELSE TRUE]
    /\ UNCHANGED <<storeVars, allSecrets, allNamespaces, di, result, prior,
                   undisturbed, lost, extCount, auxVars>>

\* reconcileSources, lines 99-107 and 114-116: r.Get(ctx, duplicateObjectKey, ...)
reconcileSourcesGet(w, F) ==
    /\ pc[w] = "sources"
    /\ \E res \in {StoreGet(secrets, duplicateObjectKey(w))} \cup Fault(F) :
         /\ faults' = Count(res)
         /\ ops' = [ops EXCEPT ![w] =
                      Append(@, Op("Get", duplicateObjectKey(w), KeyOf(sourceSecret(w)), res))]
         /\ IF res = "NotFound"
            THEN /\ pc' = [pc EXCEPT ![w] = "create"]
                 /\ UNCHANGED <<si, ni, retryableError>>
            ELSE /\ pc' = [pc EXCEPT ![w] = NextPair(w).pc]
                 /\ si' = [si EXCEPT ![w] = NextPair(w).si]
                 /\ ni' = [ni EXCEPT ![w] = NextPair(w).ni]
                 /\ retryableError' =
                        [retryableError EXCEPT ![w] = IF res = "ok" THEN @ ELSE TRUE]
    /\ UNCHANGED <<storeVars, allSecrets, allNamespaces, di, result, prior,
                   undisturbed, lost, extCount, auxVars>>

\* a variant whose failed Create leaves an object without annotations behind
reconcileSourcesCreate_partial(w, F) ==
    /\ pc[w] = "create"
    /\ LET duplicate == newDuplicateSecret(sourceSecret(w), namespace(w).Name)
       IN  \E res \in {StoreCreate(namespaces, secrets, duplicate)} \cup Fault(F) :
             /\ faults' = Count(res)
             /\ ops' = [ops EXCEPT ![w] =
                          Append(@, Op("Create", KeyOf(duplicate), KeyOf(sourceSecret(w)), res))]
             /\ secrets' = IF res = "ok" THEN Put(secrets, duplicate)
                           ELSE IF res = "Error"
                                THEN Put(secrets, [duplicate EXCEPT !.Annotations = Ann({}, <<>>, <<>>)])
                                ELSE secrets
             /\ retryableError' =
                    [retryableError EXCEPT ![w] =
                        IF res \in {"ok", "AlreadyExists"} THEN @ ELSE TRUE]
    /\ pc' = [pc EXCEPT ![w] = NextPair(w).pc]
    /\ si' = [si EXCEPT ![w] = NextPair(w).si]
    /\ ni' = [ni EXCEPT ![w] = NextPair(w).ni]
    /\ UNCHANGED <<namespaces, allSecrets, allNamespaces, di, result, prior,
                   undisturbed, lost, extCount, auxVars>>

\* a variant that records every error of Create, AlreadyExists included
reconcileSourcesCreate_strict(w, F) ==
    /\ pc[w] = "create"
    /\ LET duplicate == newDuplicateSecret(sourceSecret(w), namespace(w).Name)
       IN  \E res \in {StoreCreate(namespaces, secrets, duplicate)} \cup Fault(F) :
             /\ faults' = Count(res)
             /\ ops' = [ops EXCEPT ![w] =
                          Append(@, Op("Create", KeyOf(duplicate), KeyOf(sourceSecret(w)), res))]
             /\ secrets' = IF res = "ok" THEN Put(secrets, duplicate) ELSE secrets
             /\ retryableError' =
                    [retryableError EXCEPT ![w] = IF res = "ok" THEN @ ELSE TRUE]
    /\ pc' = [pc EXCEPT ![w] = NextPair(w).pc]
    /\ si' = [si EXCEPT ![w] = NextPair(w).si]
    /\ ni' = [ni EXCEPT ![w] = NextPair(w).ni]
    /\ UNCHANGED <<namespaces, allSecrets, allNamespaces, di, result, prior,
                   undisturbed, lost, extCount, auxVars>>

\* reconcileSources, lines 108-113: r.Create(ctx, newDuplicateSecret(...))
reconcileSourcesCreate(w, F) ==
    /\ pc[w] = "create"
    /\ LET duplicate == newDuplicateSecret(sourceSecret(w), namespace(w).Name)
       IN  \E res \in {StoreCreate(namespaces, secrets, duplicate)} \cup Fault(F) :
             /\ faults' = Count(res)
             /\ ops' = [ops EXCEPT ![w] =
                          Append(@, Op("Create", KeyOf(duplicate), KeyOf(sourceSecret(w)), res))]
             /\ secrets' = IF res = "ok" THEN Put(secrets, duplicate) ELSE secrets
             /\ retryableError' =
                    [retryableError EXCEPT ![w] =
                        IF res \in {"ok", "AlreadyExists"} THEN @ ELSE TRUE]
    /\ pc' = [pc EXCEPT ![w] = NextPair(w).pc]
    /\ si' = [si EXCEPT ![w] = NextPair(w).si]
    /\ ni' = [ni EXCEPT ![w] = NextPair(w).ni]
    /\ UNCHANGED <<namespaces, allSecrets, allNamespaces, di, result, prior,
                   undisturbed, lost, extCount, auxVars>>

\* reconcileDuplicates, lines 124-130: the lookup map; a later source with the
\* same key replaces an earlier one
sourceSecretsMap(sources) ==
    [key \in {ObjectKeyFromObject(sources[i]) : i \in 1..Len(sources)} |->
        sources[CHOOSE i \in 1..Len(sources) :
                    /\ ObjectKeyFromObject(sources[i]) = key
                    /\ \A j \in (i + 1)..Len(sources) : ObjectKeyFromObject(sources[j]) # key]]

duplicate(w) == allDuplicates(w)[di[w]]
fromAnnotation(w) == duplicate(w).Annotations[duplicatorFromAnnotationKey]
hasSource(w) == fromAnnotation(w) \in DOMAIN sourceSecretsMap(allSources(w))
sourceOf(w) == sourceSecretsMap(allSources(w))[fromAnnotation(w)]

\* the loop variables of reconcileDuplicates after the current duplicate
NextDuplicate(w) ==
    IF di[w] < Len(allDuplicates(w))
    THEN [pc |-> "duplicates", di |-> di[w] + 1]
    ELSE [pc |-> "return", di |-> di[w]]

\* a variant that drops the error of a failed Delete
reconcileDuplicatesDelete_forgets(w, F) ==
    /\ pc[w] = "duplicates"
    /\ ~hasSource(w)
    /\ \E res \in {StoreDelete(secrets, KeyOf(duplicate(w)))} \cup Fault(F) :
         /\ faults' = Count(res)
         /\ ops' = [ops EXCEPT ![w] =
                      Append(@, Op("Delete", KeyOf(duplicate(w)), KeyOf(duplicate(w)), res))]
         /\ secrets' = IF res = "ok" THEN Remove(secrets, KeyOf(duplicate(w))) ELSE secrets
         /\ retryableError' = retryableError
    /\ pc' = [pc EXCEPT ![w] = NextDuplicate(w).pc]
    /\ di' = [di EXCEPT ![w] = NextDuplicate(w).di]
    /\ UNCHANGED <<namespaces, allSecrets, allNamespaces, si, ni, result, prior,
                   undisturbed, lost, extCount, auxVars>>

\* reconcileDuplicates, lines 139-144: no matching source, r.Delete(ctx, duplicate)
reconcileDuplicatesDelete(w, F) ==
    /\ pc[w] = "duplicates"
    /\ ~hasSource(w)
    /\ \E res \in {StoreDelete(secrets, KeyOf(duplicate(w)))} \cup Fault(F) :
         /\ faults' = Count(res)
         /\ ops' = [ops EXCEPT ![w] =
                      Append(@, Op("Delete", KeyOf(duplicate(w)), KeyOf(duplicate(w)), res))]
         /\ secrets' = IF res = "ok" THEN Remove(secrets, KeyOf(duplicate(w))) ELSE secrets
         /\ retryableError' =
                [retryableError EXCEPT ![w] = IF res \in {"ok", "NotFound"} THEN @ ELSE TRUE]
    /\ pc' = [pc EXCEPT ![w] = NextDuplicate(w).pc]
    /\ di' = [di EXCEPT ![w] = NextDuplicate(w).di]
    /\ UNCHANGED <<namespaces, allSecrets, allNamespaces, si, ni, result, prior,
                   undisturbed, lost, extCount, auxVars>>

\* the object reconcileDuplicates sends for an out-of-sync duplicate, line 148
updated(w) == newDuplicateSecret(sourceOf(w), duplicate(w).Namespace)

\* reconcileDuplicates, line 147: source and duplicate are out of sync
outOfSync(dup, source) == dup.Data # source.Data

\* reconcileDuplicates, lines 145-153: r.Update(ctx, updated)
reconcileDuplicatesUpdate(w, F) ==
    /\ pc[w] = "duplicates"
    /\ hasSource(w)
    /\ outOfSync(duplicate(w), sourceOf(w))
    /\ \E res \in {StoreUpdate(secrets, updated(w))} \cup Fault(F) :
         /\ faults' = Count(res)
         /\ ops' = [ops EXCEPT ![w] =
                      Append(@, Op("Update", KeyOf(updated(w)), KeyOf(duplicate(w)), res))]
         /\ secrets' = IF res = "ok" THEN Put(secrets, updated(w)) ELSE secrets
         /\ retryableError' = [retryableError EXCEPT ![w] = IF res = "ok" THEN @ ELSE TRUE]
    /\ pc' = [pc EXCEPT ![w] = NextDuplicate(w).pc]
    /\ di' = [di EXCEPT ![w] = NextDuplicate(w).di]
    /\ UNCHANGED <<namespaces, allSecrets, allNamespaces, si, ni, result, prior,
                   undisturbed, lost, extCount, auxVars>>

\* reconcileDuplicates, lines 145-154: the duplicate is in sync, no store call
reconcileDuplicatesInSync(w) ==
    /\ pc[w] = "duplicates"
    /\ hasSource(w)
    /\ ~outOfSync(duplicate(w), sourceOf(w))
    /\ pc' = [pc EXCEPT ![w] = NextDuplicate(w).pc]
    /\ di' = [di EXCEPT ![w] = NextDuplicate(w).di]
    /\ UNCHANGED <<storeVars, allSecrets, allNamespaces, si, ni, retryableError, result,
                   ops, prior, envVars, auxVars>>

\* Reconcile, lines 91-94: return ctrl.Result{}, retryableError; a request
\* that failed is queued again
ReconcileReturn(w) ==
    /\ pc[w] = "return"
    /\ pc' = [pc EXCEPT ![w] = "idle"]
    /\ result' = [result EXCEPT ![w] = IF retryableError[w] THEN "error" ELSE "ok"]
    /\ queue' = IF retryableError[w] THEN Enqueue(queue, {req[w]}) ELSE queue
    /\ undisturbed' = TRUE
    /\ si' = [si EXCEPT ![w] = 1]
    /\ ni' = [ni EXCEPT ![w] = 1]
    /\ di' = [di EXCEPT ![w] = 1]
    /\ UNCHANGED <<storeVars, allSecrets, allNamespaces, retryableError, ops,
                   prior, lost, extCount, faults, call, req, seen, replay>>

(***************************************************************************)
(* External actors: users and other controllers writing to the store.      *)
(***************************************************************************)
ExtNamespaces == {Str_b}

\* the histories of cycles that have ended are dropped: they describe a store
\* that is no longer there
SourceKeys(store) ==
    {ObjectKeyFromObject(store[k]) : k \in {x \in DOMAIN store : isSecretDuplicatorSource(store[x])}}

\* sources that this change deletes or unmarks join the lost ones
Lost(store) == (lost \cup SourceKeys(secrets)) \ SourceKeys(store)

ExtFrame ==
    /\ extCount < MaxExternal
    /\ extCount' = extCount + 1
    /\ undisturbed' = FALSE
    /\ ops' = [w \in PoolWorkers |-> IF pc[w] = "idle" THEN <<>> ELSE ops[w]]
    /\ result' = [w \in PoolWorkers |-> IF pc[w] = "idle" THEN "none" ELSE result[w]]
    /\ prior' = [w \in PoolWorkers |-> IF pc[w] = "idle" THEN NoPrior ELSE prior[w]]
    /\ allSecrets' = [w \in PoolWorkers |-> IF pc[w] = "idle" THEN <<>> ELSE allSecrets[w]]
    /\ allNamespaces' = [w \in PoolWorkers |-> IF pc[w] = "idle" THEN <<>> ELSE allNamespaces[w]]
    /\ UNCHANGED <<pc, loopVars, retryableError, faults, auxVars>>

\* one edit of an existing secret replaces its annotations, its payload, or both
Edits(old) == {c \in Contents : MkSecret(KeyOf(old), c) # old}

\* a secret is created (not in a Terminating namespace) or edited
ExtPutSecret ==
    /\ ExtFrame
    /\ \E k \in ExtKeys :
         /\ k[1] \in DOMAIN namespaces
         /\ k \in DOMAIN secrets \/ namespaces[k[1]] # NamespaceTerminating
         /\ \E c \in IF k \in DOMAIN secrets THEN Edits(secrets[k]) ELSE Contents :
              secrets' = Put(secrets, MkSecret(k, c))
    /\ lost' = Lost(secrets')
    /\ UNCHANGED namespaces

\* a secret is deleted
ExtDeleteSecret ==
    /\ ExtFrame
    /\ \E k \in DOMAIN secrets : secrets' = Remove(secrets, k)
    /\ lost' = Lost(secrets')
    /\ UNCHANGED namespaces

\* a namespace is created, starts terminating, or is gone with all it holds
ExtNamespace ==
    /\ ExtFrame
    /\ \E n \in ExtNamespaces :
         IF n \notin DOMAIN namespaces
         THEN /\ namespaces' = [m \in DOMAIN namespaces \cup {n} |->
                                   IF m = n THEN NamespaceActive ELSE namespaces[m]]
              /\ secrets' = secrets
         ELSE IF namespaces[n] # NamespaceTerminating
         THEN /\ namespaces' = [namespaces EXCEPT ![n] = NamespaceTerminating]
              /\ secrets' = secrets
         ELSE /\ namespaces' = [m \in DOMAIN namespaces \ {n} |-> namespaces[m]]
              /\ secrets' = [k \in {x \in DOMAIN secrets : x[1] # n} |-> secrets[k]]
    /\ lost' = Lost(secrets')

External == ExtPutSecret \/ ExtDeleteSecret \/ ExtNamespace

AllIdle == \A w \in PoolWorkers : pc[w] = "idle"

(***************************************************************************)
(* Spec: one worker (controller-runtime's default), cycles that no         *)
(* external change interleaves with, no store failures of the store's own. *)
(***************************************************************************)
Reconcile(w, F) ==
    \/ ListSecrets(w, F)
    \/ ListNamespaces(w, F)
    \/ reconcileSourcesGet(w, F)
    \/ reconcileSourcesCreate(w, F)
    \/ reconcileDuplicatesDelete(w, F)
    \/ reconcileDuplicatesUpdate(w, F)
    \/ reconcileDuplicatesInSync(w)
    \/ ReconcileReturn(w)

\* external changes that fall between two cycles
QuietPutSecret == AllIdle /\ ExtPutSecret
QuietDeleteSecret == AllIdle /\ ExtDeleteSecret
QuietNamespace == AllIdle /\ ExtNamespace

Next ==
    \/ Reconcile(1, FALSE)
    \/ QuietPutSecret
    \/ QuietDeleteSecret
    \/ QuietNamespace

Spec == Init /\ [][Next]_vars

\* SpecRace: external changes may fall between any two steps of a cycle
NextRace ==
    \/ Reconcile(1, FALSE)
    \/ External

InitRace ==
    /\ namespaces \in InitNamespaces
    /\ secrets \in InitSecrets(namespaces, MaxRaceSecrets)
    /\ InitWorkers
    /\ InitAux

SpecRace == InitRace /\ [][NextRace]_vars

\* SpecFault: one worker runs cycles in which the store may fail any call
NextFault == Reconcile(1, TRUE)

SpecFault == Init /\ [][NextFault]_vars

\* the clusters the controller starts in: a source a/s or none, and at b/s
\* nothing, or a secret of any kind, with the source's payload or another
StartSecrets(nss) ==
    UNION { { [k \in K |-> MkSecret(k, f[k])] :
                f \in { g \in [K -> InitContents] :
                          <<Str_a, Str_s>> \in K =>
                             /\ isSecretDuplicatorSource(g[<<Str_a, Str_s>>])
                             /\ g[<<Str_a, Str_s>>].Data = 1
                             /\ g[<<Str_a, Str_s>>].Type = "Opaque" } } :
            K \in SUBSET {k \in {<<Str_a, Str_s>>, <<Str_b, Str_s>>} : k[1] \in DOMAIN nss} }

\* SpecFaultRace: as SpecFault, with other clients of the store acting
\* between the steps of a cycle: one creates the secret that the cycle has
\* looked up and not found, one deletes a secret, one changes a namespace
RacePutSecret ==
    /\ pc[1] = "create"
    /\ duplicateObjectKey(1) \notin DOMAIN secrets
    /\ ExtPutSecret
    /\ duplicateObjectKey(1) \in DOMAIN secrets'

RaceDeleteSecret == ~AllIdle /\ ExtDeleteSecret

RaceNamespace == ~AllIdle /\ ExtNamespace

NextFaultRace ==
    \/ Reconcile(1, TRUE)
    \/ RacePutSecret
    \/ RaceDeleteSecret
    \/ RaceNamespace

InitFaultRace ==
    /\ namespaces \in InitNamespaces
    /\ secrets \in StartSecrets(namespaces)
    /\ InitWorkers
    /\ InitAux

SpecFaultRace == InitFaultRace /\ [][NextFaultRace]_vars

(***************************************************************************)
(* SpecKeys: the controller has started and its queue holds one of the     *)
(* requests of the objects it found: that of a secret, or the one of the   *)
(* namespaces.  A worker runs a cycle for it; the store is then put back   *)
(* as it was, and a cycle for another of these requests follows.           *)
(***************************************************************************)
Range(seq) == {seq[i] : i \in 1..Len(seq)}

\* the requests of the events that an informer delivers for a store
StartRequests(nss, store) ==
    UNION ( {Range(triggerFullReconcile(ListNamespaceItems(nss)[i])) :
               i \in 1..Len(ListNamespaceItems(nss))}
            \cup {Range(EnqueueRequestForObject(store[k])) : k \in DOMAIN store} )

InitKeys ==
    /\ namespaces \in InitNamespaces
    /\ secrets \in InitSecrets(namespaces, MaxRaceSecrets)
    /\ InitWorkers
    /\ call = NoCall
    /\ req = [w \in PoolWorkers |-> Request(<<>>, <<>>)]
    /\ \E r \in StartRequests(namespaces, secrets) : queue = [on |-> TRUE, reqs |-> {r}]
    /\ seen = [namespaces |-> namespaces, secrets |-> secrets]
    /\ replay = [taken |-> FALSE, namespaces |-> namespaces, secrets |-> secrets]

\* the first cycle is over: it is put on record, the store is set back to
\* what that cycle started from, and another request is queued in place of
\* the first
Rewind(w) ==
    /\ queue.on /\ ~replay.taken
    /\ pc[w] = "idle" /\ result[w] # "none"
    /\ replay' = [taken |-> TRUE,
                  namespaces |-> replay.namespaces, secrets |-> replay.secrets,
                  req |-> req[w], ops |-> ops[w], result |-> result[w],
                  allSecrets |-> allSecrets[w], allNamespaces |-> allNamespaces[w]]
    /\ namespaces' = replay.namespaces
    /\ secrets' = replay.secrets
    /\ \E r \in StartRequests(replay.namespaces, replay.secrets) \ {req[w]} :
         queue' = [on |-> TRUE, reqs |-> {r}]
    /\ result' = [result EXCEPT ![w] = "none"]
    /\ undisturbed' = FALSE
    /\ UNCHANGED <<pc, allSecrets, allNamespaces, loopVars, retryableError, ops, prior,
                   lost, extCount, faults, call, req, seen>>

NextKeys ==
    \/ Reconcile(1, FALSE)
    \/ Rewind(1)

SpecKeys == InitKeys /\ [][NextKeys]_vars

(***************************************************************************)
(* SpecHeal: a cycle runs from the initial store without a failed call;    *)
(* the store it leaves is put on record and the initial store is put back; *)
(* then cycles run from it in which the store may fail calls.              *)
(***************************************************************************)
\* the clusters a cycle is run twice from: at a/s a source or a duplicate left
\* without one, at b/s nothing or a secret of any kind, at b/t nothing or a
\* duplicate of a/s; with the first payload or another
HealSecrets(nss) ==
    UNION { { [k \in K |-> MkSecret(k, f[k])] :
                f \in { g \in [K -> InitContents] :
                          /\ \A k \in K : g[k].Type = "Opaque"
                          /\ g[<<Str_a, Str_s>>].Data = 1
                          /\ \/ isSecretDuplicatorSource(g[<<Str_a, Str_s>>])
                             \/ isSecretDuplicated(g[<<Str_a, Str_s>>])
                          /\ <<Str_b, Str_t>> \in K => isSecretDuplicated(g[<<Str_b, Str_t>>]) } } :
            K \in {L \in SUBSET {k \in ExtKeys : k[1] \in DOMAIN nss} : <<Str_a, Str_s>> \in L} }

InitHeal ==
    /\ namespaces \in InitNamespaces
    /\ secrets \in HealSecrets(namespaces)
    /\ InitWorkers
    /\ call = NoCall
    /\ req = [w \in PoolWorkers |-> Request(<<>>, <<>>)]
    /\ queue = QueueOff
    /\ seen = NoStore
    /\ replay = [taken |-> FALSE, namespaces |-> namespaces, secrets |-> secrets]

\* the first cycle has returned without error: what it did and what it left
\* are put on record, and the store is set back to what it started from
Restart(w) ==
    /\ ~queue.on /\ ~replay.taken
    /\ "secrets" \in DOMAIN replay
    /\ pc[w] = "idle" /\ result[w] = "ok" /\ faults = 0
    /\ ~prior[w].follows
    /\ replay' = [taken |-> TRUE,
                  namespaces |-> replay.namespaces, secrets |-> replay.secrets,
                  left |-> secrets, ops |-> ops[w]]
    /\ namespaces' = replay.namespaces
    /\ secrets' = replay.secrets
    /\ result' = [result EXCEPT ![w] = "none"]
    /\ undisturbed' = FALSE
    /\ UNCHANGED <<pc, allSecrets, allNamespaces, loopVars, retryableError, ops, prior,
                   lost, extCount, faults, call, req, queue, seen>>

NextHeal ==
    \/ Reconcile(1, TRUE)
    \/ Restart(1)

SpecHeal == InitHeal /\ [][NextHeal]_vars

(***************************************************************************)
(* SpecCancel: as SpecHeal without store failures; the context of the      *)
(* first cycle after the store was set back is cancelled at some point.    *)
(* Reconcile hands ctx to every store call and does not look at it itself: *)
(* the cycle goes on and issues every call that is left, one by one.  A    *)
(* Create, Delete or Update under a cancelled context fails and changes    *)
(* nothing; a List or a Get fails, or is answered all the same (as a       *)
(* client that reads from a cache may do).  A failed List ends the cycle,  *)
(* a failed Get, Create, Delete or Update is recorded and returned.        *)
(***************************************************************************)
\* the context of the cycle in progress is cancelled
Cancelled(w) == "cut" \in DOMAIN replay /\ ~undisturbed /\ pc[w] # "idle"

\* ctx is cancelled between two store calls of the cycle
Cancel(w) ==
    /\ replay.taken /\ ~undisturbed /\ "cut" \notin DOMAIN replay
    /\ pc[w] \notin {"idle", "return"}
    /\ replay' = [taken |-> TRUE, namespaces |-> replay.namespaces, secrets |-> replay.secrets,
                  left |-> replay.left, ops |-> replay.ops, cut |-> Writes(ops[w])]
    /\ UNCHANGED <<storeVars, workerVars, envVars, call, req, queue, seen>>

\* Reconcile, lines 59-64, under the cancelled context
CancelledListNamespaces(w) ==
    /\ Cancelled(w)
    /\ pc[w] = "listNamespaces"
    /\ \E res \in {"ok", "Error"} :
         /\ ops' = [ops EXCEPT ![w] = Append(@, Op("ListNamespaces", NoKey, NoKey, res))]
         /\ IF res = "ok"
            THEN /\ \E items \in ListOrders(ListNamespaceItems(namespaces)) :
                        /\ allNamespaces' = [allNamespaces EXCEPT ![w] = items]
                        /\ pc' = [pc EXCEPT ![w] = PcAfterList(allSecrets[w], items)]
                 /\ result' = result
                 /\ undisturbed' = undisturbed
            ELSE /\ allNamespaces' = allNamespaces
                 /\ pc' = [pc EXCEPT ![w] = "idle"]
                 /\ result' = [result EXCEPT ![w] = "error"]
                 /\ undisturbed' = TRUE
         /\ queue' = IF res = "ok" THEN queue ELSE Enqueue(queue, {req[w]})
    /\ UNCHANGED <<storeVars, allSecrets, loopVars, retryableError, prior,
                   lost, extCount, faults, call, req, seen, replay>>

\* reconcileSources, lines 105-116, under the cancelled context
CancelledGet(w) ==
    /\ Cancelled(w)
    /\ pc[w] = "sources"
    /\ \E res \in {StoreGet(secrets, duplicateObjectKey(w)), "Error"} :
         /\ ops' = [ops EXCEPT ![w] =
                      Append(@, Op("Get", duplicateObjectKey(w), KeyOf(sourceSecret(w)), res))]
         /\ IF res = "NotFound"
            THEN /\ pc' = [pc EXCEPT ![w] = "create"]
                 /\ UNCHANGED <<si, ni, retryableError>>
            ELSE /\ pc' = [pc EXCEPT ![w] = NextPair(w).pc]
                 /\ si' = [si EXCEPT ![w] = NextPair(w).si]
                 /\ ni' = [ni EXCEPT ![w] = NextPair(w).ni]
                 /\ retryableError' =
                        [retryableError EXCEPT ![w] = IF res = "ok" THEN @ ELSE TRUE]
    /\ UNCHANGED <<storeVars, allSecrets, allNamespaces, di, result, prior,
                   envVars, auxVars>>

\* reconcileSources, lines 108-113, under the cancelled context
CancelledCreate(w) ==
    /\ Cancelled(w)
    /\ pc[w] = "create"
    /\ LET created == newDuplicateSecret(sourceSecret(w), namespace(w).Name)
       IN  ops' = [ops EXCEPT ![w] =
                     Append(@, Op("Create", KeyOf(created), KeyOf(sourceSecret(w)), "Error"))]
    /\ retryableError' = [retryableError EXCEPT ![w] = TRUE]
    /\ pc' = [pc EXCEPT ![w] = NextPair(w).pc]
    /\ si' = [si EXCEPT ![w] = NextPair(w).si]
    /\ ni' = [ni EXCEPT ![w] = NextPair(w).ni]
    /\ UNCHANGED <<storeVars, allSecrets, allNamespaces, di, result, prior,
                   envVars, auxVars>>

\* reconcileDuplicates, lines 139-144, under the cancelled context
CancelledDelete(w) ==
    /\ Cancelled(w)
    /\ pc[w] = "duplicates"
    /\ ~hasSource(w)
    /\ ops' = [ops EXCEPT ![w] =
                 Append(@, Op("Delete", KeyOf(duplicate(w)), KeyOf(duplicate(w)), "Error"))]
    /\ retryableError' = [retryableError EXCEPT ![w] = TRUE]
    /\ pc' = [pc EXCEPT ![w] = NextDuplicate(w).pc]
    /\ di' = [di EXCEPT ![w] = NextDuplicate(w).di]
    /\ UNCHANGED <<storeVars, allSecrets, allNamespaces, si, ni, result, prior,
                   envVars, auxVars>>

\* reconcileDuplicates, lines 145-153, under the cancelled context
CancelledUpdate(w) ==
    /\ Cancelled(w)
    /\ pc[w] = "duplicates"
    /\ hasSource(w)
    /\ outOfSync(duplicate(w), sourceOf(w))
    /\ ops' = [ops EXCEPT ![w] =
                 Append(@, Op("Update", KeyOf(updated(w)), KeyOf(duplicate(w)), "Error"))]
    /\ retryableError' = [retryableError EXCEPT ![w] = TRUE]
    /\ pc' = [pc EXCEPT ![w] = NextDuplicate(w).pc]
    /\ di' = [di EXCEPT ![w] = NextDuplicate(w).di]
    /\ UNCHANGED <<storeVars, allSecrets, allNamespaces, si, ni, result, prior,
                   envVars, auxVars>>

\* the steps of the cycle that make no store call
CancelledInSync(w) == Cancelled(w) /\ reconcileDuplicatesInSync(w)

CancelledReturn(w) == Cancelled(w) /\ ReconcileReturn(w)

\* a cycle whose context is not cancelled
Uncancelled(w) == ~Cancelled(w) /\ Reconcile(w, FALSE)

NextCancel ==
    \/ Uncancelled(1)
    \/ Restart(1)
    \/ Cancel(1)
    \/ CancelledListNamespaces(1)
    \/ CancelledGet(1)
    \/ CancelledCreate(1)
    \/ CancelledDelete(1)
    \/ CancelledUpdate(1)
    \/ CancelledInSync(1)
    \/ CancelledReturn(1)

SpecCancel == InitHeal /\ [][NextCancel]_vars

(***************************************************************************)
(* SpecPlace: one worker and a store that may fail any call, in a cluster  *)
(* of three namespaces, where a source has up to two other namespaces to   *)
(* be placed in and sources of one name meet in a third namespace.         *)
(***************************************************************************)
PlaceNamespaces ==
    { [n \in {Str_a, Str_b, Str_c} |-> IF n = Str_a THEN NamespaceActive ELSE p[n]] :
        p \in [{Str_b, Str_c} -> {NamespaceActive, NamespaceTerminating}] }

\* at a/s, b/s and c/s nothing or a secret of any kind, at b/t nothing or a
\* source; with the first payload, or another at c/s
PlaceSecrets ==
    UNION { { [k \in K |-> MkSecret(k, f[k])] :
                f \in { g \in [K -> InitContents] :
                          /\ \A k \in K : /\ g[k].Type = "Opaque"
                                          /\ g[k].Data = 1 \/ k = <<Str_c, Str_s>>
                          /\ <<Str_b, Str_t>> \in K =>
                                isSecretDuplicatorSource(g[<<Str_b, Str_t>>]) } } :
            K \in SUBSET {<<Str_a, Str_s>>, <<Str_b, Str_s>>, <<Str_c, Str_s>>, <<Str_b, Str_t>>} }

InitPlace ==
    /\ namespaces \in PlaceNamespaces
    /\ secrets \in PlaceSecrets
    /\ InitWorkers
    /\ InitAux

SpecPlace == InitPlace /\ [][NextFault]_vars

(***************************************************************************)
(* SpecTwo: two Reconcile calls at once, as a worker pool delivers them.   *)
(* Reconcile keeps nothing between or across calls (the reconciler holds   *)
(* the client and the scheme), so each call is the cycle of one worker.    *)
(* One cycle runs alone first; the store is then set back and two requests *)
(* with different keys are queued, which the two calls take; their steps   *)
(* interleave in every way, one call after the other included.             *)
(***************************************************************************)
InitTwo ==
    /\ namespaces \in InitNamespaces
    /\ secrets \in HealSecrets(namespaces)
    /\ InitWorkers
    /\ call = NoCall
    /\ req = [w \in PoolWorkers |-> Request(<<>>, <<>>)]
    /\ queue = [on |-> TRUE, reqs |-> {Request(<<>>, <<>>)}]
    /\ seen = NoStore
    /\ replay = [taken |-> FALSE, namespaces |-> namespaces, secrets |-> secrets]

\* the cycle that ran alone has returned without error: what it left is put
\* on record, the store is set back, and two requests are queued: the one of
\* a namespace event and the one of the secret a/s
Fork ==
    /\ queue.on /\ queue.reqs = {} /\ ~replay.taken
    /\ AllIdle /\ result[1] = "ok" /\ ~prior[1].follows
    /\ replay' = [taken |-> TRUE, namespaces |-> replay.namespaces, secrets |-> replay.secrets,
                  left |-> secrets, ops |-> ops[1]]
    /\ namespaces' = replay.namespaces
    /\ secrets' = replay.secrets
    /\ queue' = [on |-> TRUE,
                 reqs |-> Range(triggerFullReconcile(ListNamespaceItems(replay.namespaces)[1]))
                          \cup Range(EnqueueRequestForObject(replay.secrets[<<Str_a, Str_s>>]))]
    /\ result' = [w \in PoolWorkers |-> "none"]
    /\ undisturbed' = FALSE
    /\ UNCHANGED <<pc, allSecrets, allNamespaces, loopVars, retryableError, ops, prior,
                   lost, extCount, faults, call, req, seen>>

\* the second call starts when two requests are queued
SecondWorker == replay.taken /\ Reconcile(2, FALSE)

NextTwo ==
    \/ Reconcile(1, FALSE)
    \/ SecondWorker
    \/ Fork

SpecTwo == InitTwo /\ [][NextTwo]_vars

(***************************************************************************)
(* SpecLive: the controller as SetupWithManager wires it, once it has      *)
(* started: the requests of the objects it found are in the queue.         *)
(* Informers deliver an event for each object of the store they have not   *)
(* seen in its present form; a namespace event is mapped by triggerFullReconcile, a    *)
(* secret event by its own key; the requests wait in the queue for the     *)
(* worker.  Namespaces come and go while the controller runs.              *)
(***************************************************************************)
\* the informer has not seen the object at x in its present form
Unseen(now, cache, x) ==
    \/ (x \in DOMAIN now) # (x \in DOMAIN cache)
    \/ x \in DOMAIN now /\ x \in DOMAIN cache /\ now[x] # cache[x]

\* the cache once the event for x is delivered
Sync(now, cache, x) ==
    [y \in (DOMAIN cache \ {x}) \cup ({x} \cap DOMAIN now) |->
        IF y = x THEN now[x] ELSE cache[y]]

\* the object an event carries: the present one, or the last one seen
EventObject(now, cache, x) == IF x \in DOMAIN now THEN now[x] ELSE cache[x]

\* lines 175-180: Watches(&corev1.Namespace{}, EnqueueRequestsFromMapFunc(...))
WatchNamespace ==
    /\ queue.on
    /\ \E n \in DOMAIN namespaces \cup DOMAIN seen.namespaces :
         /\ Unseen(namespaces, seen.namespaces, n)
         /\ queue' = Enqueue(queue, Range(triggerFullReconcile(
                         [Name |-> n,
                          Phase |-> EventObject(namespaces, seen.namespaces, n)])))
         /\ seen' = [seen EXCEPT !.namespaces = Sync(namespaces, seen.namespaces, n)]
    /\ UNCHANGED <<storeVars, workerVars, envVars, call, req, replay>>

\* line 181: For(&corev1.Secret{})
WatchSecret ==
    /\ queue.on
    /\ \E k \in DOMAIN secrets \cup DOMAIN seen.secrets :
         /\ Unseen(secrets, seen.secrets, k)
         /\ queue' = Enqueue(queue, Range(EnqueueRequestForObject(
                         EventObject(secrets, seen.secrets, k))))
         /\ seen' = [seen EXCEPT !.secrets = Sync(secrets, seen.secrets, k)]
    /\ UNCHANGED <<storeVars, workerVars, envVars, call, req, replay>>

InitLive ==
    /\ namespaces \in InitNamespaces
    /\ secrets \in StartSecrets(namespaces)
    /\ InitWorkers
    /\ call = NoCall
    /\ req = [w \in PoolWorkers |-> Request(<<>>, <<>>)]
    /\ queue = [on |-> TRUE, reqs |-> StartRequests(namespaces, secrets)]
    /\ seen = [namespaces |-> namespaces, secrets |-> secrets]
    /\ replay = NoReplay

NextLive ==
    \/ Reconcile(1, FALSE)
    \/ WatchNamespace
    \/ WatchSecret
    \/ ExtNamespace

\* the worker takes the requests that wait and carries each call through;
\* the informers deliver every event
SpecLive ==
    /\ InitLive /\ [][NextLive]_vars
    /\ WF_vars(Reconcile(1, FALSE))
    /\ WF_vars(WatchNamespace)
    /\ WF_vars(WatchSecret)

(***************************************************************************)
(* SpecQuiesce: the controller as it is deployed, with faults: one worker  *)
(* takes the requests of the queue, the informers deliver an event for     *)
(* every change of a secret or a namespace, the worker's own writes        *)
(* included, and other clients of the store change secrets and namespaces  *)
(* at any moment, between the steps of a cycle as well as between cycles.  *)
(***************************************************************************)
\* the store the controller starts on holds the source a/s
QuiesceSecrets ==
    { [k \in {<<Str_a, Str_s>>} |->
         MkSecret(k, [Data |-> 1, Type |-> "Opaque",
                      Annotations |-> Ann({duplicatorDuplicateAnnotationKey}, Str_true, <<>>)])] }

InitQuiesce ==
    /\ namespaces = [n \in {Str_a, Str_b} |-> NamespaceActive]
    /\ secrets \in QuiesceSecrets
    /\ InitWorkers
    /\ call = NoCall
    /\ req = [w \in PoolWorkers |-> Request(<<>>, <<>>)]
    /\ queue = [on |-> TRUE, reqs |-> StartRequests(namespaces, secrets)]
    /\ seen = [namespaces |-> namespaces, secrets |-> secrets]
    /\ replay = NoReplay

\* The informers compare the store with what they delivered last, where the
\* API server sends an event for every write: a change of another client is
\* taken up once the events of the changes before it are delivered, so that
\* none of them goes without its event. Between two steps of a cycle the
\* informers may deliver and other clients may write, in any number.
Watched == seen = [namespaces |-> namespaces, secrets |-> secrets]

\* what other clients write: the source a/s, a/s without its mark, and a
\* secret b/t that names a/s as its source and differs from it
QuiescePuts ==
    { MkSecret(<<Str_a, Str_s>>,
               [Data |-> 1, Type |-> "Opaque",
                Annotations |-> Ann({duplicatorDuplicateAnnotationKey}, Str_true, <<>>)]),
      MkSecret(<<Str_a, Str_s>>,
               [Data |-> 1, Type |-> "Opaque", Annotations |-> Ann({}, <<>>, <<>>)]),
      MkSecret(<<Str_b, Str_t>>,
               [Data |-> 2, Type |-> "Opaque",
                Annotations |-> Ann({duplicatorFromAnnotationKey}, <<>>,
                                    ObjectKeyString(Str_a, Str_s))]) }

WatchedPutSecret ==
    /\ ExtPutSecret
    /\ \E s \in QuiescePuts : secrets' = Put(secrets, s)
    /\ Watched

WatchedDeleteSecret == ExtDeleteSecret /\ Watched

WatchedNamespace == ExtNamespace /\ Watched

NextQuiesce ==
    \/ Reconcile(1, TRUE)
    \/ WatchNamespace
    \/ WatchSecret
    \/ WatchedPutSecret
    \/ WatchedDeleteSecret
    \/ WatchedNamespace

SpecQuiesce == InitQuiesce /\ [][NextQuiesce]_vars

(***************************************************************************)
(* SpecFlap: cycles over a store that no other client changes, with two    *)
(* sources of one name, a/s and b/s, and a third namespace c that holds    *)
(* nothing, or secrets s and t that name a/s, b/s or the absent a/t as     *)
(* their source.                                                           *)
(***************************************************************************)
FlapFrom ==
    {ObjectKeyString(Str_a, Str_s), ObjectKeyString(Str_b, Str_s), ObjectKeyString(Str_a, Str_t)}

FlapSecrets ==
    UNION { { [k \in {<<Str_a, Str_s>>, <<Str_b, Str_s>>} \cup K |->
                 MkSecret(k, [Data |-> IF k = <<Str_a, Str_s>> THEN 1 ELSE f[k].Data,
                              Type |-> "Opaque",
                              Annotations |->
                                IF k[1] = Str_c
                                THEN Ann({duplicatorFromAnnotationKey}, <<>>, f[k].From)
                                ELSE Ann({duplicatorDuplicateAnnotationKey}, Str_true, <<>>)])] :
                f \in { g \in [{<<Str_b, Str_s>>} \cup K -> [Data : Data, From : FlapFrom]] :
                          /\ g[<<Str_b, Str_s>>].From = ObjectKeyString(Str_a, Str_s)
                          /\ <<Str_c, Str_s>> \in K =>
                                g[<<Str_c, Str_s>>].From # ObjectKeyString(Str_a, Str_t) } } :
            K \in SUBSET {<<Str_c, Str_s>>, <<Str_c, Str_t>>} }

InitFlap ==
    /\ namespaces = [n \in {Str_a, Str_b, Str_c} |-> NamespaceActive]
    /\ secrets \in FlapSecrets
    /\ InitWorkers
    /\ InitAux

NextFlap == Reconcile(1, FALSE)

SpecFlap == InitFlap /\ [][NextFlap]_vars

(***************************************************************************)
(* SpecPure: the functions of the package applied on their own, to         *)
(* arguments drawn from the sets below.                                    *)
(***************************************************************************)
\* values of the duplicate annotation
PureDuplicateValues ==
    { Str_true, <<"f", "a", "l", "s", "e">>, <<"T", "r", "u", "e">>, <<"1">>, <<>> }

\* values of the source annotation
PureFromValues ==
    { ObjectKeyString(Str_a, Str_s), Str_a \o Str_s, <<"/">>, <<>>, <<"a", "/">>,
      <<"/", "s">>, <<"/", "/">>, <<"a", "/", "s", "/", "t">> }

\* annotation maps: none, a foreign key, either key with each value, both keys
PureAnnotations ==
    { [k \in {} |-> <<>>], [k \in {"app"} |-> Str_a] } \cup
    { [k \in {duplicatorDuplicateAnnotationKey} |-> v] : v \in PureDuplicateValues } \cup
    { [k \in {duplicatorFromAnnotationKey} |-> v] : v \in PureFromValues } \cup
    { Ann({duplicatorDuplicateAnnotationKey, duplicatorFromAnnotationKey}, d, f) :
        d \in {Str_true, <<"1">>}, f \in {ObjectKeyString(Str_a, Str_s), Str_a \o Str_s} }

PureSecrets ==
    { [ Name |-> key[2], Namespace |-> key[1], Annotations |-> a, Labels |-> l,
        Data |-> p.Data, Type |-> p.Type ] :
        key \in ExtKeys, a \in PureAnnotations, l \in {NoLabels, ExtLabels},
        p \in {q \in Payloads : q.Data = 2 \/ q.Type # "Opaque"} }

PureNamespaces ==
    { [Name |-> n, Phase |-> ph] :
        n \in {Str_a, Str_b, Str_c}, ph \in {NamespaceActive, NamespaceTerminating, ""} }

Call(fn, arg, res) == [fn |-> fn, arg |-> arg, result |-> res]

PureFrame == UNCHANGED <<storeVars, workerVars, envVars, queueVars>>

CallNewDuplicateSecret ==
    /\ \E source \in PureSecrets, target \in {Str_a, Str_b, Str_c} :
         call' = Call("newDuplicateSecret", <<source, target>>,
                      newDuplicateSecret(source, target))
    /\ PureFrame

CallIsSecretDuplicatorSource ==
    /\ \E secret \in PureSecrets :
         call' = Call("isSecretDuplicatorSource", <<secret>>, isSecretDuplicatorSource(secret))
    /\ PureFrame

CallIsSecretDuplicated ==
    /\ \E secret \in PureSecrets :
         call' = Call("isSecretDuplicated", <<secret>>, isSecretDuplicated(secret))
    /\ PureFrame

CallTriggerFullReconcile ==
    /\ \E obj \in PureNamespaces :
         call' = Call("triggerFullReconcile", <<obj>>, triggerFullReconcile(obj))
    /\ PureFrame

CallEnqueueRequestForObject ==
    /\ \E obj \in PureSecrets :
         call' = Call("EnqueueRequestForObject", <<obj>>, EnqueueRequestForObject(obj))
    /\ PureFrame

\* Reconcile, lines 66-74: the two lists a cycle makes of the secrets it listed
CallFindAll ==
    /\ \E secret \in PureSecrets :
         call' = Call("findAll", <<secret>>,
                      [sources    |-> findAllSourceSecrets(<<secret>>),
                       duplicates |-> findAllDuplicateSecrets(<<secret>>)])
    /\ PureFrame

InitPure ==
    /\ namespaces = [n \in {Str_a} |-> NamespaceActive]
    /\ secrets = [k \in {} |-> <<>>]
    /\ InitWorkers
    /\ InitAux

NextPure ==
    \/ CallNewDuplicateSecret
    \/ CallIsSecretDuplicatorSource
    \/ CallIsSecretDuplicated
    \/ CallTriggerFullReconcile
    \/ CallEnqueueRequestForObject
    \/ CallFindAll

SpecPure == InitPure /\ [][NextPure]_vars

(***************************************************************************)
(* What a cycle saw and did, for the properties below.                     *)
(***************************************************************************)
ListedSecrets(w) == {allSecrets[w][j] : j \in 1..Len(allSecrets[w])}
ListedSources(w) == {s \in ListedSecrets(w) : isSecretDuplicatorSource(s)}
ListedNamespaces(w) == {allNamespaces[w][j] : j \in 1..Len(allNamespaces[w])}
Listed(w, key) == {s \in ListedSecrets(w) : KeyOf(s) = key}
OpsOf(w, kinds) == {ops[w][i] : i \in {j \in 1..Len(ops[w]) : ops[w][j].op \in kinds}}
HasFrom(secret) == duplicatorFromAnnotationKey \in DOMAIN secret.Annotations
FromOf(secret) == secret.Annotations[duplicatorFromAnnotationKey]
Malformed(secret) == HasFrom(secret) /\ Len(strings_Split(FromOf(secret), "/")) # 2
NameOfKey(K) == strings_Split(K, "/")[2]
\* the call has returned, and no external change has happened since
Returned(w) == pc[w] = "idle" /\ result[w] # "none"
Succeeded(w) == pc[w] = "idle" /\ result[w] = "ok"
\* both passes are over
PassesOver(w) == pc[w] = "return" \/ Returned(w)
\* the cycle did not list the namespace of that name as Terminating
NotTerminating(w, name) ==
    \A N \in ListedNamespaces(w) : N.Name = name => N.Phase # NamespaceTerminating
\* the store holds at key a duplicate of S: annotation, data and type
IsDuplicateOf(key, S) ==
    /\ key \in DOMAIN secrets
    /\ HasFrom(secrets[key])
    /\ FromOf(secrets[key]) = ObjectKeyFromObject(S)
    /\ secrets[key].Data = S.Data
    /\ secrets[key].Type = S.Type

(***************************************************************************)
(* C1 (non-clobber): where the listing showed, at a key named like a       *)
(* listed source, a secret that is not a managed duplicate, the cycle      *)
(* issues no Update and no Delete against that key, and once the cycle has *)
(* returned the secret is in the store as it was listed.                   *)
(***************************************************************************)
C1_NonClobber ==
    \A w \in Workers :
      \A X \in ListedSecrets(w) :
        (~isSecretDuplicated(X) /\ \E S \in ListedSources(w) : S.Name = X.Name) =>
           /\ \A o \in OpsOf(w, {"Update", "Delete"}) : o.key # KeyOf(X)
           /\ Returned(w) => KeyOf(X) \in DOMAIN secrets /\ secrets[KeyOf(X)] = X

(***************************************************************************)
(* C2 (convergence) as the claim states it: once a cycle has returned      *)
(* without error and undisturbed, every listed source S has, in every      *)
(* listed namespace N other than its own whose phase is not Terminating, a *)
(* duplicate at (N, S.name): annotated with S's key, with S's data and     *)
(* type.                                                                   *)
(***************************************************************************)
C2_ConvergenceAsStated ==
    \A w \in Workers : Succeeded(w) =>
      \A S \in ListedSources(w), N \in ListedNamespaces(w) :
        (N.Phase # NamespaceTerminating /\ N.Name # S.Namespace) =>
           IsDuplicateOf(<<N.Name, S.Name>>, S)

(***************************************************************************)
(* C2 amended: the same, for the keys (N, S.name) at which the listing     *)
(* showed no secret; the duplicate there is that of a listed source named  *)
(* S.name (S itself when no other listed source has that name).            *)
(***************************************************************************)
C2_Convergence ==
    \A w \in Workers : Succeeded(w) =>
      \A S \in ListedSources(w), N \in ListedNamespaces(w) :
        (/\ N.Phase # NamespaceTerminating
         /\ N.Name # S.Namespace
         /\ Listed(w, <<N.Name, S.Name>>) = {}) =>
           \E S2 \in ListedSources(w) :
              S2.Name = S.Name /\ IsDuplicateOf(<<N.Name, S.Name>>, S2)

\* a cycle has returned without error after creating a duplicate of a source
\* whose type is not the default one
C2_Witness ==
    /\ Succeeded(1)
    /\ \E o \in OpsOf(1, {"Create"}) :
         /\ o.res = "ok"
         /\ secrets[o.key].Type # "Opaque"
         /\ \E S \in ListedSources(1) : IsDuplicateOf(o.key, S)

(***************************************************************************)
(* C3 (orphan cleanup): when a source with key K has been deleted or has   *)
(* lost its annotation, a cycle that returns without error has issued a    *)
(* Delete for every listed secret whose source annotation is K, and no     *)
(* cycle issues an Update or a Delete against a listed secret of the       *)
(* source's name that is not a managed duplicate.                          *)
(***************************************************************************)
C3_OrphanCleanup ==
    \A w \in Workers : \A K \in lost :
      (\A S \in ListedSources(w) : ObjectKeyFromObject(S) # K) =>
         /\ Succeeded(w) =>
              \A D \in ListedSecrets(w) : (HasFrom(D) /\ FromOf(D) = K) =>
                 /\ \E o \in OpsOf(w, {"Delete"}) : o.key = KeyOf(D)
                 /\ KeyOf(D) \notin DOMAIN secrets
         /\ \A o \in OpsOf(w, {"Update", "Delete"}) :
              \A X \in Listed(w, o.key) :
                 X.Name = NameOfKey(K) => isSecretDuplicated(X)

(***************************************************************************)
(* C4 (re-sync): for every listed duplicate D whose source S is listed     *)
(* with other data, the cycle issues an Update; and when that Update has   *)
(* succeeded, the secret at D's key has S's data and the source annotation *)
(* as its only annotation.  (Stated for the duplicates in namespaces not   *)
(* listed as Terminating, which the claims about those leave aside.)       *)
(***************************************************************************)
LastOp(w) == ops[w][Len(ops[w])]

C4_ResyncOverwrite ==
    \A w \in Workers :
      /\ PassesOver(w) =>
           \A D \in ListedSecrets(w), S \in ListedSources(w) :
             (/\ isSecretDuplicated(D)
              /\ NotTerminating(w, D.Namespace)
              /\ FromOf(D) = ObjectKeyFromObject(S)
              /\ D.Data # S.Data) =>
                \E o \in OpsOf(w, {"Update"}) : o.obj = KeyOf(D)
      /\ (ops[w] # <<>> /\ LastOp(w).op = "Update" /\ LastOp(w).res = "ok") =>
           \A D \in Listed(w, LastOp(w).obj), S \in ListedSources(w) :
             (FromOf(D) = ObjectKeyFromObject(S) /\ NotTerminating(w, D.Namespace)) =>
               /\ KeyOf(D) \in DOMAIN secrets
               /\ secrets[KeyOf(D)].Data = S.Data
               /\ secrets[KeyOf(D)].Annotations =
                     [k \in {duplicatorFromAnnotationKey} |-> ObjectKeyFromObject(S)]

(***************************************************************************)
(* C5 (type in sync): once a cycle has returned without error and          *)
(* undisturbed, every managed duplicate in the store whose source was      *)
(* listed has the type of that source.  (Stated for the duplicates in      *)
(* namespaces not listed as Terminating.)                                  *)
(***************************************************************************)
C5_TypeInSync ==
    \A w \in Workers : Succeeded(w) =>
      \A k \in DOMAIN secrets :
        (isSecretDuplicated(secrets[k]) /\ NotTerminating(w, k[1])) =>
        \A S \in ListedSources(w) :
          FromOf(secrets[k]) = ObjectKeyFromObject(S) => secrets[k].Type = S.Type

(***************************************************************************)
(* C6 (idempotence) as the claim states it: a cycle that starts when the   *)
(* cycle before it has returned without error, with no external change in  *)
(* between, issues no Create, Update or Delete.                            *)
(***************************************************************************)
C6_IdempotenceAsStated ==
    \A w \in Workers : (prior[w].follows /\ prior[w].ok) => Writes(ops[w]) = {}

(***************************************************************************)
(* C7 (terminating namespaces): every Create of a cycle goes to a          *)
(* namespace the cycle listed with a phase other than Terminating; and     *)
(* every listed namespace with another phase, the empty one included, is a *)
(* target: the source pass looks up each listed source there and issues a  *)
(* Create where the lookup finds nothing.                                  *)
(***************************************************************************)
C7_TerminatingNotTargets ==
    \A w \in Workers :
      /\ \A o \in OpsOf(w, {"Create"}) :
           /\ \E N \in ListedNamespaces(w) : N.Name = o.key[1]
           /\ \A N \in ListedNamespaces(w) :
                N.Name = o.key[1] => N.Phase # NamespaceTerminating
      /\ (pc[w] = "duplicates" \/ PassesOver(w)) =>
           \A S \in ListedSources(w), N \in ListedNamespaces(w) :
             N.Phase # NamespaceTerminating =>
               \E i \in 1..Len(ops[w]) :
                 /\ ops[w][i].op = "Get"
                 /\ ops[w][i].key = <<N.Name, S.Name>>
                 /\ ops[w][i].res = "NotFound" =>
                      /\ i < Len(ops[w])
                      /\ ops[w][i + 1].op = "Create"
                      /\ ops[w][i + 1].key = <<N.Name, S.Name>>

\* the source pass is over for a source whose duplicate is missing in a listed
\* Terminating namespace
C7_Witness ==
    /\ pc[1] \in {"duplicates", "return"}
    /\ \E S \in ListedSources(1), N \in ListedNamespaces(1) :
         /\ N.Phase = NamespaceTerminating
         /\ N.Name # S.Namespace
         /\ <<N.Name, S.Name>> \notin DOMAIN secrets

(***************************************************************************)
(* C8 (terminating namespaces, duplicates): no cycle issues an Update or a *)
(* Delete for a duplicate that lives in a namespace the cycle listed as    *)
(* Terminating.                                                            *)
(***************************************************************************)
C8_TerminatingUntouched ==
    \A w \in Workers :
      \A o \in OpsOf(w, {"Update", "Delete"}), N \in ListedNamespaces(w) :
        N.Name = o.obj[1] => N.Phase # NamespaceTerminating

(***************************************************************************)
(* C9 (malformed annotation): a listed secret whose source annotation does *)
(* not split into exactly two parts is not among the cycle's duplicates,   *)
(* and the cycle issues no Update and no Delete against its key.           *)
(***************************************************************************)
C9_MalformedTolerance ==
    \A w \in Workers :
      \A M \in ListedSecrets(w) : Malformed(M) =>
        /\ \A j \in 1..Len(allDuplicates(w)) : allDuplicates(w)[j] # M
        /\ \A o \in OpsOf(w, {"Update", "Delete"}) : o.key # KeyOf(M)

(***************************************************************************)
(* C10 (own namespace): no cycle issues a Create in the namespace of the   *)
(* source it duplicates, whatever external changes fall between its steps. *)
(***************************************************************************)
C10_NoCreateInOwnNamespace ==
    \A w \in Workers : \A o \in OpsOf(w, {"Create"}) : o.key[1] # o.obj[1]

(***************************************************************************)
(* C11 (Mirror Builder): newDuplicateSecret(S, N) has S's name, namespace  *)
(* N, S's data and type, no labels, and one annotation only, the source    *)
(* annotation with value "<S.namespace>/<S.name>".                         *)
(***************************************************************************)
C11_MirrorBuilder ==
    call.fn = "newDuplicateSecret" =>
      LET S == call.arg[1]
          N == call.arg[2]
          D == call.result
      IN  /\ D.Name = S.Name
          /\ D.Namespace = N
          /\ D.Data = S.Data
          /\ D.Type = S.Type
          /\ DOMAIN D.Labels = {}
          /\ DOMAIN D.Annotations = {duplicatorFromAnnotationKey}
          /\ D.Annotations[duplicatorFromAnnotationKey] = S.Namespace \o <<"/">> \o S.Name

\* the builder has been applied to a labelled source that is marked for duplication
C11_Witness ==
    /\ call.fn = "newDuplicateSecret"
    /\ DOMAIN call.arg[1].Labels # {}
    /\ duplicatorDuplicateAnnotationKey \in DOMAIN call.arg[1].Annotations
    /\ call.arg[1].Namespace # call.arg[2]

(***************************************************************************)
(* C12 (listing failure): a step that lists secrets or namespaces leaves   *)
(* the store as it is; and when the listing has failed, the cycle is over  *)
(* with an error as its result and has issued no Get, Create, Update or    *)
(* Delete.                                                                 *)
(***************************************************************************)
ListKinds == {"ListSecrets", "ListNamespaces"}
StoreKinds == {"Get", "Create", "Update", "Delete"}
ListFailed(w) == \E o \in OpsOf(w, ListKinds) : o.res = "Error"
ListingsOk(w) == \E o \in OpsOf(w, {"ListNamespaces"}) : o.res = "ok"

C12_ListFailureAborts ==
    [][\A w \in Workers :
         /\ (ops'[w] # ops[w] /\ LastOp(w)'.op \in ListKinds) => UNCHANGED storeVars
         /\ ListFailed(w)' =>
               /\ pc'[w] = "idle"
               /\ result'[w] = "error"
               /\ OpsOf(w, StoreKinds)' = {}]_vars

\* the namespace listing has failed in a cycle that had listed a source whose
\* duplicate is missing in the other namespace, and the cycle is over
C12_Witness ==
    /\ \E o \in OpsOf(1, {"ListNamespaces"}) : o.res = "Error"
    /\ Returned(1)
    /\ Str_b \in DOMAIN namespaces /\ namespaces[Str_b] = NamespaceActive
    /\ \E S \in ListedSources(1) :
         S.Namespace = Str_a /\ <<Str_b, S.Name>> \notin DOMAIN secrets

(***************************************************************************)
(* C13 (partial failure): whatever store call of a cycle has failed, once  *)
(* both passes are over the source pass has looked up every listed source  *)
(* in every listed namespace that is not Terminating and has attempted a   *)
(* Create after every lookup that found nothing, and the duplicate pass    *)
(* has issued a Delete for every listed duplicate without a listed source  *)
(* and an Update for every listed duplicate whose data differ from its     *)
(* source's.                                                               *)
(***************************************************************************)
C13_PartialFailureTolerance ==
    \A w \in Workers : (PassesOver(w) /\ ListingsOk(w)) =>
      /\ \A S \in ListedSources(w), N \in ListedNamespaces(w) :
           N.Phase # NamespaceTerminating =>
             \E o \in OpsOf(w, {"Get"}) :
                o.key = <<N.Name, S.Name>> /\ o.obj = KeyOf(S)
      /\ \A i \in 1..Len(ops[w]) :
           (ops[w][i].op = "Get" /\ ops[w][i].res = "NotFound") =>
              /\ i < Len(ops[w])
              /\ ops[w][i + 1].op = "Create"
              /\ ops[w][i + 1].key = ops[w][i].key
      /\ \A D \in ListedSecrets(w) : isSecretDuplicated(D) =>
           /\ (\A S \in ListedSources(w) : ObjectKeyFromObject(S) # FromOf(D)) =>
                 \E o \in OpsOf(w, {"Delete"}) : o.key = KeyOf(D)
           /\ \A S \in ListedSources(w) :
                 (ObjectKeyFromObject(S) = FromOf(D) /\ S.Data # D.Data) =>
                    \E o \in OpsOf(w, {"Update"}) : o.obj = KeyOf(D)

\* both passes are over in a cycle whose source pass had a failed store call
\* followed by a further lookup, and whose duplicate pass issued a call
C13_Witness ==
    /\ PassesOver(1) /\ ListingsOk(1)
    /\ \E i, j, k \in 1..Len(ops[1]) :
         /\ i < j /\ j < k
         /\ ops[1][i].op \in {"Get", "Create"} /\ ops[1][i].res = "Error"
         /\ ops[1][j].op = "Get"
         /\ ops[1][k].op \in {"Update", "Delete"}

(***************************************************************************)
(* C14 (result aggregation): a cycle whose two listings succeeded returns  *)
(* an error exactly when one of its calls recorded one: a Get that failed  *)
(* otherwise than with NotFound, a Create that failed otherwise than with  *)
(* AlreadyExists, a Delete that failed otherwise than with NotFound, or an *)
(* Update that failed.                                                     *)
(***************************************************************************)
Recorded(o) ==
    \/ o.op = "Get" /\ o.res \notin {"ok", "NotFound"}
    \/ o.op = "Create" /\ o.res \notin {"ok", "AlreadyExists"}
    \/ o.op = "Delete" /\ o.res \notin {"ok", "NotFound"}
    \/ o.op = "Update" /\ o.res # "ok"

C14_ResultAggregation ==
    \A w \in Workers : (Returned(w) /\ ListingsOk(w)) =>
      (result[w] = "error" <=> \E o \in OpsOf(w, StoreKinds) : Recorded(o))

\* a cycle has returned without error although a Create of its source pass
\* was answered AlreadyExists
C14_Witness ==
    /\ Succeeded(1) /\ ListingsOk(1)
    /\ \E o \in OpsOf(1, {"Create"}) : o.res = "AlreadyExists"

(***************************************************************************)
(* C15 (Trigger Router): a namespace notification yields exactly one       *)
(* request, with empty namespace and empty name, whatever the namespace;   *)
(* a secret notification yields one request with the secret's namespace    *)
(* and name.                                                               *)
(***************************************************************************)
C15_TriggerRouter ==
    /\ call.fn = "triggerFullReconcile" =>
         /\ Len(call.result) = 1
         /\ call.result[1].Namespace = <<>>
         /\ call.result[1].Name = <<>>
    /\ call.fn = "EnqueueRequestForObject" =>
         /\ Len(call.result) = 1
         /\ call.result[1].Namespace = call.arg[1].Namespace
         /\ call.result[1].Name = call.arg[1].Name

\* the notification of a namespace other than the first has been routed
C15_Witness ==
    /\ call.fn = "triggerFullReconcile"
    /\ call.arg[1].Name = Str_b
    /\ call.arg[1].Phase = NamespaceTerminating

(***************************************************************************)
(* C17 (source classification): isSecretDuplicatorSource is true exactly   *)
(* when the annotation map has the duplicate key with the value "true".    *)
(***************************************************************************)
C17_SourceClassification ==
    call.fn = "isSecretDuplicatorSource" =>
      LET A == call.arg[1].Annotations
      IN  call.result =
            (/\ duplicatorDuplicateAnnotationKey \in DOMAIN A
             /\ A[duplicatorDuplicateAnnotationKey] = <<"t", "r", "u", "e">>)

\* the classifier has been applied to a secret whose annotation says "True"
C17_Witness ==
    /\ call.fn = "isSecretDuplicatorSource"
    /\ duplicatorDuplicateAnnotationKey \in DOMAIN call.arg[1].Annotations
    /\ call.arg[1].Annotations[duplicatorDuplicateAnnotationKey] = <<"T", "r", "u", "e">>
    /\ call.result = FALSE

(***************************************************************************)
(* C18 (duplicate classification): isSecretDuplicated is true exactly when *)
(* the source annotation is present and its value holds one "/" and no     *)
(* more, empty segments allowed.                                           *)
(***************************************************************************)
Slashes(value) == Cardinality({i \in 1..Len(value) : value[i] = "/"})

C18_DuplicateClassification ==
    call.fn = "isSecretDuplicated" =>
      LET A == call.arg[1].Annotations
      IN  call.result =
            (/\ duplicatorFromAnnotationKey \in DOMAIN A
             /\ Slashes(A[duplicatorFromAnnotationKey]) = 1)

\* the classifier has been applied to a value with two separators
C18_Witness ==
    /\ call.fn = "isSecretDuplicated"
    /\ duplicatorFromAnnotationKey \in DOMAIN call.arg[1].Annotations
    /\ Slashes(call.arg[1].Annotations[duplicatorFromAnnotationKey]) = 2
    /\ call.result = FALSE

(***************************************************************************)
(* C20 (same-named sources): a cycle that listed two sources of one name   *)
(* in two namespaces returns without error; and once it has, every listed  *)
(* source of a name of its own has a duplicate, with its annotation, data  *)
(* and type, at each key (N, S.name) that the listing showed free in a     *)
(* listed namespace N other than its own that is not Terminating.          *)
(***************************************************************************)
SameNamed(w) ==
    \E S1, S2 \in ListedSources(w) : S1.Name = S2.Name /\ S1.Namespace # S2.Namespace

C16_KeyIndependence ==
    \A w \in Workers :
      (/\ replay.taken
       /\ Returned(w)
       /\ req[w] # replay.req
       /\ allSecrets[w] = replay.allSecrets
       /\ allNamespaces[w] = replay.allNamespaces) =>
         /\ ops[w] = replay.ops
         /\ result[w] = replay.result

\* a cycle given the request of a secret has returned after one given the
\* request of the namespaces, both from a store with a duplicate to create
C16_Witness ==
    /\ replay.taken
    /\ Returned(1)
    /\ replay.req = Request(<<>>, <<>>)
    /\ req[1].Name # <<>>
    /\ allSecrets[1] = replay.allSecrets
    /\ allNamespaces[1] = replay.allNamespaces
    /\ \E o \in OpsOf(1, {"Create"}) : o.res = "ok" /\ o.obj[1] # req[1].Namespace

(***************************************************************************)
(* C19 (new namespaces): the event of a namespace puts the request with    *)
(* the empty key in the queue; and when a namespace is there with a phase  *)
(* other than Terminating, then eventually, unless it is gone or           *)
(* Terminating by then, every name of a source of another namespace is     *)
(* taken in it: by a duplicate the controller created, or by the secret    *)
(* that had the name already.                                              *)
(***************************************************************************)
Eligible(n) == n \in DOMAIN namespaces /\ namespaces[n] # NamespaceTerminating

Populated(n) ==
    \A k \in DOMAIN secrets :
      (isSecretDuplicatorSource(secrets[k]) /\ k[1] # n) => <<n, k[2]>> \in DOMAIN secrets

C19_NewNamespacePopulated ==
    /\ [][seen.namespaces' # seen.namespaces =>
            Request(<<>>, <<>>) \in queue.reqs']_vars
    /\ \A n \in ExtNamespaces : Eligible(n) ~> (~Eligible(n) \/ Populated(n))

\* a namespace that was created after the controller had started holds a
\* duplicate of a source of the other namespace
C19_Witness ==
    /\ queue.on
    /\ extCount > 0
    /\ Eligible(Str_b)
    /\ \E k \in DOMAIN secrets :
         /\ isSecretDuplicatorSource(secrets[k])
         /\ k[1] = Str_a
         /\ IsDuplicateOf(<<Str_b, k[2]>>, secrets[k])
         /\ \E o \in OpsOf(1, {"Create"}) : o.res = "ok" /\ o.key = <<Str_b, k[2]>>

(***************************************************************************)
(* C21 (malformed duplicate): a cycle that listed a secret whose source    *)
(* annotation has no "/" returns without error; and once it has, every     *)
(* key (N, S.name) that the listing showed free, for a listed source S and *)
(* a listed namespace N other than S's that is not Terminating, holds a    *)
(* duplicate of a listed source named S.name.                              *)
(***************************************************************************)
NoSlash(secret) == HasFrom(secret) /\ Len(strings_Split(FromOf(secret), "/")) = 1

Healed(w) ==
    /\ replay.taken /\ "left" \in DOMAIN replay
    /\ Succeeded(w)
    /\ prior[w].follows /\ prior[w].first /\ prior[w].failed # {}

BothDone ==
    /\ replay.taken /\ "left" \in DOMAIN replay
    /\ queue.on /\ queue.reqs = {}
    /\ req[1] # req[2]
    /\ \A w \in PoolWorkers : Succeeded(w) /\ prior[w].failed = {}

ChangedSinceList(w, key) ==
    /\ key \in DOMAIN secrets
    /\ \E i \in 1..Len(allSecrets[w]) :
         KeyOf(allSecrets[w][i]) = key /\ allSecrets[w][i] # secrets[key]
    /\ \A i \in 1..Len(ops[w]) :
         (ops[w][i].op \in WriteKinds /\ ops[w][i].key = key) => ops[w][i].res # "ok"

C24_ConflictingWritesRejected ==
    [][\A w \in Workers :
         (/\ Len(ops'[w]) = Len(ops[w]) + 1
          /\ ops'[w][Len(ops'[w])].op \in {"Update", "Delete"}
          /\ ChangedSinceList(w, ops'[w][Len(ops'[w])].key)) =>
            /\ ops'[w][Len(ops'[w])].res # "ok"
            /\ secrets' = secrets
            /\ retryableError'[w]]_vars


(***************************************************************************)
(* C25 (cancellation is safe) as the claim states it: when a cycle is cut  *)
(* off after any prefix of its store operations, a complete, failure-free  *)
(* cycle that follows, with no external change in between, leaves the      *)
(* store as one uninterrupted cycle from the original store left it.       *)
(***************************************************************************)
\* the cycle cut off was the first from the original store, and the cycle
\* right after it has returned without error
Resumed(w) ==
    /\ replay.taken /\ "cut" \in DOMAIN replay
    /\ Succeeded(w)
    /\ prior[w].follows /\ prior[w].first

CreatesFollowNotFound(w) ==
    \A i \in 1..Len(ops[w]) :
      ops[w][i].op = "Create" =>
        /\ i > 1
        /\ ops[w][i - 1].op = "Get"
        /\ ops[w][i - 1].key = ops[w][i].key
        /\ ops[w][i - 1].res = "NotFound"
        /\ \E S \in ListedSources(w), N \in ListedNamespaces(w) :
             /\ N.Phase # NamespaceTerminating
             /\ ops[w][i].key = <<N.Name, S.Name>>
             /\ ops[w][i].obj = KeyOf(S)

\* every Get answered NotFound is followed by the Create of that key
NotFoundIsCreated(w) ==
    \A i \in 1..Len(ops[w]) :
      (ops[w][i].op = "Get" /\ ops[w][i].res = "NotFound") =>
        IF i < Len(ops[w])
        THEN ops[w][i + 1].op = "Create" /\ ops[w][i + 1].key = ops[w][i].key
        ELSE pc[w] = "create"

\* the source pass is over and has looked up every placement
EveryPlacementLookedUp(w) ==
    (pc[w] \in {"duplicates", "return"} \/ (Returned(w) /\ ListingsOk(w))) =>
      \A S \in ListedSources(w), N \in ListedNamespaces(w) :
        N.Phase # NamespaceTerminating =>
          \E i \in 1..Len(ops[w]) :
            /\ ops[w][i].op = "Get"
            /\ ops[w][i].key = <<N.Name, S.Name>>
            /\ ops[w][i].obj = KeyOf(S)

\* the other namespaces a source is to be placed in
OtherEligible(w, S) ==
    {N \in ListedNamespaces(w) : N.Phase # NamespaceTerminating /\ N.Name # S.Namespace}

CreatesFor(w, S) ==
    {i \in 1..Len(ops[w]) : ops[w][i].op = "Create" /\ ops[w][i].obj = KeyOf(S)}

\* the source pass is over, every Get was answered, and no eligible namespace
\* other than the source's held a secret of its name
FreePlacements(w, S) ==
    /\ pc[w] \in {"duplicates", "return"} \/ (Returned(w) /\ ListingsOk(w))
    /\ \A i \in 1..Len(ops[w]) : ops[w][i].op = "Get" => ops[w][i].res # "Error"
    /\ \A N \in OtherEligible(w, S) : Listed(w, <<N.Name, S.Name>>) = {}

(***************************************************************************)
(* C26 as the claim states it: a Create for (N, S.name) is issued if and   *)
(* only if S is a listed source, N a listed non-terminating namespace and  *)
(* the Get for (N, S.name) just before returned NotFound; and a source     *)
(* with k other eligible namespaces, none holding a secret of its name,    *)
(* yields exactly k Creates.                                               *)
(***************************************************************************)
C26_CreatesAsStated ==
    \A w \in Workers :
      /\ CreatesFollowNotFound(w)
      /\ NotFoundIsCreated(w)
      /\ EveryPlacementLookedUp(w)
      /\ \A S \in ListedSources(w) :
           FreePlacements(w, S) =>
             Cardinality(CreatesFor(w, S)) = Cardinality(OtherEligible(w, S))


(***************************************************************************)
(* C26, amended: the same, where the count holds for a source that is the  *)
(* only listed source of its name.                                         *)
(***************************************************************************)
C26_Creates ==
    \A w \in Workers :
      /\ CreatesFollowNotFound(w)
      /\ NotFoundIsCreated(w)
      /\ EveryPlacementLookedUp(w)
      /\ \A S \in ListedSources(w) :
           (/\ FreePlacements(w, S)
            /\ \A S2 \in ListedSources(w) : S2.Name = S.Name => S2 = S) =>
             Cardinality(CreatesFor(w, S)) = Cardinality(OtherEligible(w, S))

\* the source b/t has been placed in the two other namespaces, both free
C26_Witness ==
    /\ Returned(1)
    /\ \E S \in ListedSources(1) :
         /\ KeyOf(S) = <<Str_b, Str_t>>
         /\ FreePlacements(1, S)
         /\ Cardinality(OtherEligible(1, S)) = 2
         /\ Cardinality(CreatesFor(1, S)) = 2
    /\ \E i \in 1..Len(ops[1]) : ops[1][i].op = "Get" /\ ops[1][i].res = "ok"


(***************************************************************************)
(* C27 (deletes and updates are justified by the listing): a Delete is     *)
(* issued only for a listed duplicate whose source annotation matches no   *)
(* listed source; an Update only for a listed duplicate whose annotation   *)
(* matches a listed source with other data; a listed duplicate with a live *)
(* source and equal data is the target of no write.                        *)
(***************************************************************************)
ListedSourceKeys(w) == {ObjectKeyFromObject(S) : S \in ListedSources(w)}

DeleteJustified(w, o) ==
    \E D \in Listed(w, o.key) :
      isSecretDuplicated(D) /\ FromOf(D) \notin ListedSourceKeys(w)

UpdateJustified(w, o) ==
    \E D \in Listed(w, o.key) :
      /\ isSecretDuplicated(D)
      /\ \E S \in ListedSources(w) : ObjectKeyFromObject(S) = FromOf(D) /\ S.Data # D.Data

InSyncUntouched(w) ==
    \A D \in ListedSecrets(w) :
      (/\ isSecretDuplicated(D)
       /\ \E S \in ListedSources(w) : ObjectKeyFromObject(S) = FromOf(D) /\ S.Data = D.Data) =>
        \A o \in OpsOf(w, {"Update", "Delete"}) : o.key # KeyOf(D)

C27_WritesJustified ==
    \A w \in Workers :
      /\ \A o \in OpsOf(w, {"Delete"}) : DeleteJustified(w, o)
      /\ \A o \in OpsOf(w, {"Update"}) : UpdateJustified(w, o)
      /\ InSyncUntouched(w)


(***************************************************************************)
(* C28 (classification is a partition): no secret is in both the list of   *)
(* sources and the list of duplicates of a cycle, whatever annotations it  *)
(* carries.                                                                *)
(***************************************************************************)
C28_ClassificationPartition ==
    call.fn = "findAll" =>
      Range(call.result.sources) \cap Range(call.result.duplicates) = {}


(***************************************************************************)
(* C29 (empty components are not well-formed): a secret whose source       *)
(* annotation has an empty namespace or an empty name ("/", "ns/",         *)
(* "/name") is not put on the list of duplicates, the only list a cycle    *)
(* issues Delete and Update from.                                          *)
(***************************************************************************)
EmptyComponent(value) ==
    LET parts == strings_Split(value, "/")
    IN  Len(parts) = 2 /\ (parts[1] = <<>> \/ parts[2] = <<>>)

C29_EmptyComponents ==
    (/\ call.fn = "findAll"
     /\ HasFrom(call.arg[1])
     /\ EmptyComponent(FromOf(call.arg[1]))) =>
       call.result.duplicates = <<>>

(***************************************************************************)
(* C30 (the engine never writes to a source): no cycle issues an Update or *)
(* a Delete whose target is a secret that its listing shows with           *)
(* duplicate=true.                                                         *)
(***************************************************************************)
C30_NeverWritesSource ==
    \A w \in Workers :
      \A o \in OpsOf(w, {"Update", "Delete"}) :
        \A D \in Listed(w, o.key) : ~isSecretDuplicatorSource(D)


(***************************************************************************)
(* C31 (an Update hits the duplicate that was observed): every Update of   *)
(* the duplicate pass is addressed to the key of the listed duplicate      *)
(* whose data set it off, also when the name of the duplicate is not the   *)
(* name in its source annotation.                                          *)
(***************************************************************************)
C31_UpdateHitsObserved ==
    \A w \in Workers :
      \A o \in OpsOf(w, {"Update"}) : o.key = o.obj


(***************************************************************************)
(* C32 (engine output is never a source): every secret that a Create or an *)
(* Update of a cycle puts in the store is classified as a duplicate and    *)
(* not as a source: it carries a two-part source annotation and no         *)
(* duplicate annotation.                                                   *)
(***************************************************************************)
\* the step is a Create or an Update of worker w that the store accepted
Wrote(w) ==
    /\ Len(ops'[w]) = Len(ops[w]) + 1
    /\ LastOp(w)'.op \in {"Create", "Update"}
    /\ LastOp(w)'.res = "ok"

C32_OutputNeverSource ==
    [][\A w \in Workers :
         Wrote(w) =>
           /\ LastOp(w)'.key \in DOMAIN secrets'
           /\ isSecretDuplicated(secrets'[LastOp(w)'.key])
           /\ ~isSecretDuplicatorSource(secrets'[LastOp(w)'.key])
           /\ duplicatorDuplicateAnnotationKey
                \notin DOMAIN secrets'[LastOp(w)'.key].Annotations]_vars

\* a cycle has created one duplicate and rewritten another, and a later
\* cycle lists the written secrets as duplicates only
C32_Witness ==
    /\ Returned(1)
    /\ \E o \in OpsOf(1, {"Create"}) : o.res = "ok"
    /\ \E o \in OpsOf(1, {"Update"}) :
         /\ o.res = "ok"
         /\ o.key \in DOMAIN secrets
         /\ isSecretDuplicated(secrets[o.key])
         /\ ~isSecretDuplicatorSource(secrets[o.key])

(***************************************************************************)
(* C33 (no orphan at quiescence): whenever no cycle is in flight, no       *)
(* request waits in the queue (a failed request is queued again, so none   *)
(* awaits a retry) and the informers have delivered the event of every     *)
(* change, each secret whose source annotation has the form                *)
(* "namespace/name" names the key of a secret that is a source now.        *)
(***************************************************************************)
Quiescent ==
    /\ queue.on
    /\ AllIdle
    /\ queue.reqs = {}
    /\ seen = [namespaces |-> namespaces, secrets |-> secrets]

Orphaned(k) ==
    /\ isSecretDuplicated(secrets[k])
    /\ FromOf(secrets[k]) \notin SourceKeys(secrets)

C33_NoOrphanAtQuiescence ==
    Quiescent => \A k \in DOMAIN secrets : ~Orphaned(k)

\* quiescence after another client deleted or unmarked the source and the
\* cycle before the last deleted the duplicate that was left without it
C33_Witness ==
    /\ Quiescent
    /\ extCount > 0
    /\ ObjectKeyString(Str_a, Str_s) \in lost
    /\ SourceKeys(secrets) = {}
    /\ "Delete" \in prior[1].writes
    /\ prior[1].failed = {}

(***************************************************************************)
(* C34 (no flapping): when a cycle lists two sources of one name in two    *)
(* namespaces, and in a third namespace a duplicate that names one of them *)
(* as its source and has that source's data, the cycle issues no Create,   *)
(* Update or Delete that the store accepts at the key of that duplicate.   *)
(***************************************************************************)
Settled(w, D) ==
    /\ isSecretDuplicated(D)
    /\ \E S \in ListedSources(w), S2 \in ListedSources(w) :
         /\ S.Name = S2.Name
         /\ S.Namespace # S2.Namespace
         /\ D.Namespace \notin {S.Namespace, S2.Namespace}
         /\ D.Name = S.Name
         /\ FromOf(D) = ObjectKeyFromObject(S)
         /\ D.Data = S.Data

C34_NoFlapping ==
    \A w \in Workers :
      \A D \in ListedSecrets(w) :
        Settled(w, D) =>
          \A o \in OpsOf(w, WriteKinds) : o.res = "ok" => o.key # KeyOf(D)

=============================================================================
